---- MODULE Spec2Model ----
(***************************************************************************)
(* Loader registry, loader chains and the environment's loader merge of    *)
(* jinjarope (src/src/jinjarope/loaderregistry.py, environment.py,         *)
(* fsspecloaders.py).                                                      *)
(*                                                                         *)
(* Strings that the code inspects (directory paths) are sequences of       *)
(* one-character strings, so that "://" detection and POSIX normalisation  *)
(* are computed.  Loader objects are records; the id field numbers the     *)
(* constructions of that class with that argument, so two loaders are the  *)
(* same Python object iff the records are equal.                           *)
(***************************************************************************)
EXTENDS Integers, Sequences, FiniteSets, TLC

VARIABLES
    fs_loaders,        \* LoaderRegistry.fs_loaders: posix path -> FileSystemLoader
    fsspec_loaders,    \* LoaderRegistry.fsspec_loaders: url -> FsSpecFileSystemLoader
    package_loaders,   \* LoaderRegistry.package_loaders: package -> PackageLoader
    constructed,       \* per cache: key -> number of loaders constructed for it
    nextId,            \* number of the next allocation made outside the caches
    earlier,           \* history: one earlier call of a registry getter, kept to compare
    lastCall,          \* the most recent call and its result
    backend,           \* content of the backing stores
    fsspec_cache,      \* functools.cache of utils.fsspec_get: path -> content
    resolved,          \* the most recent get_source / list_templates and its result
    env_loader,        \* Environment.loader
    callers,           \* concurrent callers of the registry getters and where they are
    extra_files,       \* Environment._extra_files
    extra_paths,       \* Environment._extra_paths
    env_globals,       \* Environment.globals
    with_ctx,          \* the with_globals block: its phase, kwargs and temp dict
    fs_out,            \* the most recent JinjaLoaderFileSystem call and its result
    collections,       \* APICallCollectionManager.collections, in insertion order
    mgr_out,           \* the most recent load_collections call and its outcome
    tree_out,          \* the most recent DirectoryTree listing: options and entries
    loaderregistry_registry   \* the LoaderRegistry of module jinjarope.loaderregistry

\* the state the registry calls and the loader merge leave alone
rest == <<callers, extra_files, extra_paths, env_globals, with_ctx, fs_out>>

\* the state of the objects outside the loader machinery
later == <<collections, mgr_out, tree_out, loaderregistry_registry>>

vars == <<fs_loaders, fsspec_loaders, package_loaders, constructed, nextId, earlier,
          lastCall, backend, fsspec_cache, resolved, env_loader, rest, later>>

----------------------------------------------------------------------------
\* Bounds

MaxObjects == 3      \* allocations made outside the caches
MaxPaths == 2        \* directory and module paths given to one get_loader call

----------------------------------------------------------------------------
\* Input alphabets

PathD      == <<"d">>
PathDSlash == <<"d", "/">>
PathT      == <<"t">>
UrlD       == <<"s", ":", "/", "/", "d">>
UrlT       == <<"s", ":", "/", "/", "t">>

FsPaths   == {PathD, PathDSlash, PathT}
UrlPaths  == {UrlD, UrlT}
DirPaths  == FsPaths \cup UrlPaths
Packages  == {"mypkg", "other"}
Names     == {"x.txt", "a.html"}
\* protocol-style template names, fetched by utils.fsspec_get
RemoteName  == "s://r/x.txt"
RemoteNames == {RemoteName, "s://r/gone"}
AllNames    == Names \cup RemoteNames
\* a static mapping (dict[str, str]) is a set of <<name, text>> pairs, one per name
Statics   == {{}, {<<"x.txt", "hello">>}}

None == [kind |-> "none"]

----------------------------------------------------------------------------
\* str / pathlib helpers

\* '"://" in str(path)'
HasProtocolSep(p) ==
    \E i \in 1..(Len(p) - 2) : p[i] = ":" /\ p[i + 1] = "/" /\ p[i + 2] = "/"

RECURSIVE SplitFrom(_, _, _)
SplitFrom(p, i, cur) ==
    IF i > Len(p) THEN <<cur>>
    ELSE IF p[i] = "/" THEN <<cur>> \o SplitFrom(p, i + 1, <<>>)
    ELSE SplitFrom(p, i + 1, Append(cur, p[i]))

IsPart(s) == s # <<>> /\ s # <<".">>

RECURSIVE Join(_)
Join(parts) ==
    IF parts = <<>> THEN <<>>
    ELSE IF Len(parts) = 1 THEN parts[1]
    ELSE parts[1] \o <<"/">> \o Join(Tail(parts))

\* pathlib.Path(path).as_posix() on a POSIX host: empty and "." segments and
\* a trailing slash are dropped, a root is kept, the empty path is "."
AsPosix(p) ==
    LET body == Join(SelectSeq(SplitFrom(p, 1, <<>>), IsPart))
        root == IF Len(p) >= 2 /\ p[1] = "/" /\ p[2] = "/" /\ ~(Len(p) >= 3 /\ p[3] = "/")
                THEN <<"/", "/">>
                ELSE IF Len(p) >= 1 /\ p[1] = "/" THEN <<"/">> ELSE <<>>
    IN  IF root \o body = <<>> THEN <<".">> ELSE root \o body

\* dict assignment d[k] = v
Put(d, k, v) == [x \in (DOMAIN d) \cup {k} |-> IF x = k THEN v ELSE d[x]]

----------------------------------------------------------------------------
\* Loader objects

\* identities: the n-th loader a cache constructed for its key, and the
\* objects of the n-th allocation made outside the caches
CacheId(n) == <<"cache", n>>
AllocId(n) == <<"alloc", n>>

FileSystemLoader(path, id)       == [kind |-> "fs", id |-> id, searchpath |-> path]
FsSpecFileSystemLoader(url, id)  == [kind |-> "fsspec", id |-> id, url |-> url]
PackageLoader(package, id)       == [kind |-> "package", id |-> id, package |-> package]
DictLoader(mapping, id)          == [kind |-> "dict", id |-> id, mapping |-> mapping]
FsSpecProtocolPathLoader(id)     == [kind |-> "protocol", id |-> id]
ChoiceLoader(loaders, id)        == [kind |-> "choice", id |-> id, loaders |-> loaders]

IsChoice(l) == l.kind = "choice"

\* LoaderMixin.__or__: the children of both operands, own first
Or(self, other, id) ==
    LET own    == IF IsChoice(self) THEN self.loaders ELSE <<self>>
        others == IF IsChoice(other) THEN other.loaders ELSE <<other>>
    IN  ChoiceLoader(own \o others, id)

\* utils.reduce_list: duplicates dropped, order of first occurrence kept
RECURSIVE reduce_list(_)
reduce_list(xs) ==
    IF xs = <<>> THEN <<>>
    ELSE LET init == reduce_list(SubSeq(xs, 1, Len(xs) - 1))
             x    == xs[Len(xs)]
         IN  IF \E i \in 1..Len(init) : init[i] = x THEN init ELSE Append(init, x)

----------------------------------------------------------------------------
\* LoaderRegistry.  R is the registry object (its three caches) together with
\* the construction counters that give objects their identity.  Every operation
\* yields [reg |-> R', ret |-> result].

Registry == [fs |-> fs_loaders, fsspec |-> fsspec_loaders,
             pkg |-> package_loaders, made |-> constructed, next |-> nextId]

\* how many loaders have been constructed so far for this key
Made(counts, key) == IF key \in DOMAIN counts THEN counts[key] ELSE 0

\* a getter that also files the new loader in the filesystem cache
get_fsspec_loader_shared(R, path) ==
    IF path \in DOMAIN R.fsspec
    THEN [reg |-> R, ret |-> R.fsspec[path]]
    ELSE LET n      == Made(R.made.fsspec, path) + 1
             loader == FsSpecFileSystemLoader(path, CacheId(n))
         IN  [reg |-> [R EXCEPT !.fsspec = Put(@, path, loader),
                                !.fs = Put(@, path, loader),
                                !.made.fsspec = Put(@, path, n)],
              ret |-> loader]

\* a getter that files the loader under the normalised path
get_fsspec_loader_posix(R, path) ==
    IF AsPosix(path) \in DOMAIN R.fsspec
    THEN [reg |-> R, ret |-> R.fsspec[AsPosix(path)]]
    ELSE LET n      == Made(R.made.fsspec, AsPosix(path)) + 1
             loader == FsSpecFileSystemLoader(path, CacheId(n))
         IN  [reg |-> [R EXCEPT !.fsspec = Put(@, AsPosix(path), loader),
                                !.made.fsspec = Put(@, AsPosix(path), n)],
              ret |-> loader]

get_fsspec_loader(R, path) ==
    IF path \in DOMAIN R.fsspec
    THEN [reg |-> R, ret |-> R.fsspec[path]]
    ELSE LET n      == Made(R.made.fsspec, path) + 1
             loader == FsSpecFileSystemLoader(path, CacheId(n))
         IN  [reg |-> [R EXCEPT !.fsspec = Put(@, path, loader),
                                !.made.fsspec = Put(@, path, n)],
              ret |-> loader]

\* a getter that looks the normalised path up but stores under the path as given
get_filesystem_loader_rawkey(R, path) ==
    LET posix == AsPosix(path)
    IN  IF posix \in DOMAIN R.fs
        THEN [reg |-> R, ret |-> R.fs[posix]]
        ELSE LET n      == Made(R.made.fs, posix) + 1
                 loader == FileSystemLoader(posix, CacheId(n))
             IN  [reg |-> [R EXCEPT !.fs = Put(@, path, loader),
                                    !.made.fs = Put(@, posix, n)],
                  ret |-> loader]

get_filesystem_loader(R, path) ==
    LET posix == AsPosix(path)
    IN  IF posix \in DOMAIN R.fs
        THEN [reg |-> R, ret |-> R.fs[posix]]
        ELSE LET n      == Made(R.made.fs, posix) + 1
                 loader == FileSystemLoader(posix, CacheId(n))
             IN  [reg |-> [R EXCEPT !.fs = Put(@, posix, loader),
                                    !.made.fs = Put(@, posix, n)],
                  ret |-> loader]

\* a getter that constructs and stores a loader on every call
get_package_loader_nocheck(R, package) ==
    LET n      == Made(R.made.pkg, package) + 1
        loader == PackageLoader(package, CacheId(n))
    IN  [reg |-> [R EXCEPT !.pkg = Put(@, package, loader),
                           !.made.pkg = Put(@, package, n)],
         ret |-> loader]

get_package_loader(R, package) ==
    IF package \in DOMAIN R.pkg
    THEN [reg |-> R, ret |-> R.pkg[package]]
    ELSE LET n      == Made(R.made.pkg, package) + 1
             loader == PackageLoader(package, CacheId(n))
         IN  [reg |-> [R EXCEPT !.pkg = Put(@, package, loader),
                                !.made.pkg = Put(@, package, n)],
              ret |-> loader]

\* a dispatch that looks for "://" in the normalised path
by_path_normalised(R, path) ==
    IF HasProtocolSep(AsPosix(path))
    THEN get_fsspec_loader(R, path)
    ELSE get_filesystem_loader(R, path)

by_path(R, path) ==
    IF HasProtocolSep(path)
    THEN get_fsspec_loader(R, path)
    ELSE get_filesystem_loader(R, path)

\* [self.get_package_loader(p) for p in m_paths]
RECURSIVE PackageLoadersFor(_, _)
PackageLoadersFor(R, paths) ==
    IF paths = <<>> THEN [reg |-> R, ret |-> <<>>]
    ELSE LET h == get_package_loader(R, Head(paths))
             t == PackageLoadersFor(h.reg, Tail(paths))
         IN  [reg |-> t.reg, ret |-> <<h.ret>> \o t.ret]

\* for file in dir_paths: loader |= fsspec or filesystem loader
RECURSIVE DirLoop(_, _, _)
DirLoop(R, loader, files) ==
    IF files = <<>> THEN [reg |-> R, ret |-> loader]
    ELSE LET file == Head(files)
             h    == IF HasProtocolSep(file)
                     THEN get_fsspec_loader(R, file)
                     ELSE get_filesystem_loader(R, file)
         IN  DirLoop(h.reg, Or(loader, h.ret, loader.id), Tail(files))

\* a get_loader that takes the directory paths before the module paths
get_loader_dirs_first(R, dir_paths, module_paths, static, fsspec_paths) ==
    LET id == AllocId(R.next)
        dl == DirLoop(R, ChoiceLoader(<<>>, id), reduce_list(dir_paths))
        pk == PackageLoadersFor(dl.reg, reduce_list(module_paths))
        c1 == Or(dl.ret, ChoiceLoader(pk.ret, id), id)
        c2 == IF static # {} THEN Or(c1, DictLoader(static, id), id) ELSE c1
        c3 == IF fsspec_paths THEN Or(c2, FsSpecProtocolPathLoader(id), id) ELSE c2
    IN  [reg |-> [pk.reg EXCEPT !.next = @ + 1], ret |-> c3]

\* a get_loader that adds the protocol path loader before the static mapping
get_loader_fallback_first(R, dir_paths, module_paths, static, fsspec_paths) ==
    LET pk == PackageLoadersFor(R, reduce_list(module_paths))
        id == AllocId(R.next)
        dl == DirLoop(pk.reg, ChoiceLoader(pk.ret, id), reduce_list(dir_paths))
        c2 == IF fsspec_paths THEN Or(dl.ret, FsSpecProtocolPathLoader(id), id) ELSE dl.ret
        c3 == IF static # {} THEN Or(c2, DictLoader(static, id), id) ELSE c2
    IN  [reg |-> [dl.reg EXCEPT !.next = @ + 1], ret |-> c3]

\* a get_loader that puts the static mapping in front of the other loaders
get_loader_static_first(R, dir_paths, module_paths, static, fsspec_paths) ==
    LET pk == PackageLoadersFor(R, reduce_list(module_paths))
        id == AllocId(R.next)
        dl == DirLoop(pk.reg, ChoiceLoader(pk.ret, id), reduce_list(dir_paths))
        c2 == IF static # {} THEN Or(DictLoader(static, id), dl.ret, id) ELSE dl.ret
        c3 == IF fsspec_paths THEN Or(c2, FsSpecProtocolPathLoader(id), id) ELSE c2
    IN  [reg |-> [dl.reg EXCEPT !.next = @ + 1], ret |-> c3]

\* get_loader(dir_paths=, module_paths=, static=, fsspec_paths=): the chain
\* and the loaders made for it are the objects of allocation R.next
\* a get_loader that never adds the protocol path loader
get_loader_no_fallback(R, dir_paths, module_paths, static, fsspec_paths) ==
    LET pk == PackageLoadersFor(R, reduce_list(module_paths))
        id == AllocId(R.next)
        dl == DirLoop(pk.reg, ChoiceLoader(pk.ret, id), reduce_list(dir_paths))
        c2 == IF static # {} THEN Or(dl.ret, DictLoader(static, id), id) ELSE dl.ret
    IN  [reg |-> [dl.reg EXCEPT !.next = @ + 1], ret |-> c2]

get_loader(R, dir_paths, module_paths, static, fsspec_paths) ==
    LET pk == PackageLoadersFor(R, reduce_list(module_paths))
        id == AllocId(R.next)
        c0 == ChoiceLoader(pk.ret, id)
        dl == DirLoop(pk.reg, c0, reduce_list(dir_paths))
        c1 == dl.ret
        c2 == IF static # {} THEN Or(c1, DictLoader(static, id), id) ELSE c1
        c3 == IF fsspec_paths THEN Or(c2, FsSpecProtocolPathLoader(id), id) ELSE c2
    IN  [reg |-> [dl.reg EXCEPT !.next = @ + 1], ret |-> c3]

\* get_loader(path): the positional string case
get_loader_str(R, path) == by_path(R, path)

\* get_loader(module): a new PackageLoader, no cache involved
get_loader_module(R, mod) ==
    [reg |-> [R EXCEPT !.next = @ + 1], ret |-> PackageLoader(mod, AllocId(R.next))]

----------------------------------------------------------------------------
\* Backing stores.  backend.fs[dir][name], backend.fsspec[url][name],
\* backend.pkg[package][name] and backend.remote[name] are the content of a
\* file, Absent when there is none, Denied when it cannot be read.

Absent == "<absent>"
Denied == "<denied>"

\* what opening a file of the store does: its content, or the exception raised
Open(entry) ==
    IF entry = Absent THEN [exc |-> "FileNotFoundError", data |-> ""]
    ELSE IF entry = Denied THEN [exc |-> "PermissionError", data |-> ""]
    ELSE [exc |-> "", data |-> entry]

Ok(src)    == [status |-> "ok", src |-> src]
Raise(exc) == [status |-> exc, src |-> ""]
NotFound   == Raise("TemplateNotFound")

\* utils.fsspec_get under functools.cache: a cached path is not fetched again,
\* a fetch that raises is not cached
fsspec_get_uncached(B, cache, path) ==
    [out |-> Open(B.remote[path]), cache |-> cache]

fsspec_get(B, cache, path) ==
    IF path \in DOMAIN cache
    THEN [out |-> [exc |-> "", data |-> cache[path]], cache |-> cache]
    ELSE LET o == Open(B.remote[path])
         IN  [out |-> o, cache |-> IF o.exc = "" THEN Put(cache, path, o.data) ELSE cache]

\* a get_source that lets the FileNotFoundError of the fetch through
protocol_get_source_leak(B, cache, template) ==
    LET g == fsspec_get(B, cache, template)
    IN  [res   |-> IF g.out.exc # "" THEN Raise(g.out.exc) ELSE Ok(g.out.data),
         cache |-> g.cache]

\* FsSpecProtocolPathLoader.get_source
protocol_get_source(B, cache, template) ==
    LET g == fsspec_get(B, cache, template)
    IN  [res   |-> IF g.out.exc = "FileNotFoundError" THEN NotFound
                   ELSE IF g.out.exc # "" THEN Raise(g.out.exc)
                   ELSE Ok(g.out.data),
         cache |-> g.cache]

\* a get_source that turns every exception of the backend into TemplateNotFound
fsspec_get_source_any(loader, B, template) ==
    LET o == Open(B.fsspec[loader.url][template])
    IN  IF o.exc # "" THEN NotFound ELSE Ok(o.data)

\* FsSpecFileSystemLoader.get_source
fsspec_get_source(loader, B, template) ==
    LET o == Open(B.fsspec[loader.url][template])
    IN  IF o.exc = "FileNotFoundError" THEN NotFound
        ELSE IF o.exc # "" THEN Raise(o.exc)
        ELSE Ok(o.data)

\* FileSystemLoader.get_source / PackageLoader.get_source: a missing file is
\* TemplateNotFound, any other failure of the read is raised as it is
fs_get_source(loader, B, template) ==
    LET where == AsPosix(loader.searchpath)
        dir   == IF where \in DOMAIN B.fs THEN B.fs[where] ELSE [n \in {} |-> Absent]
        o   == Open(IF template \in DOMAIN dir THEN dir[template] ELSE Absent)
    IN  IF o.exc = "FileNotFoundError" THEN NotFound
        ELSE IF o.exc # "" THEN Raise(o.exc)
        ELSE Ok(o.data)

package_get_source(loader, B, template) ==
    LET o == Open(B.pkg[loader.package][template])
    IN  IF o.exc = "FileNotFoundError" THEN NotFound
        ELSE IF o.exc # "" THEN Raise(o.exc)
        ELSE Ok(o.data)

\* DictLoader.get_source
dict_get_source(loader, template) ==
    IF \E e \in loader.mapping : e[1] = template
    THEN Ok((CHOOSE e \in loader.mapping : e[1] = template)[2])
    ELSE NotFound

\* loader.get_source(environment, template): [res |-> result, cache |-> cache']
RECURSIVE get_source(_, _, _, _)
RECURSIVE choice_get_source(_, _, _, _)

\* ChoiceLoader.get_source: the first child that does not raise
\* TemplateNotFound decides; any other exception of a child is raised
choice_get_source(children, B, cache, template) ==
    IF children = <<>> THEN [res |-> NotFound, cache |-> cache]
    ELSE LET h == get_source(Head(children), B, cache, template)
         IN  IF h.res = NotFound
             THEN choice_get_source(Tail(children), B, h.cache, template)
             ELSE h

get_source(loader, B, cache, template) ==
    CASE loader.kind = "choice"   -> choice_get_source(loader.loaders, B, cache, template)
      [] loader.kind = "protocol" -> protocol_get_source(B, cache, template)
      [] loader.kind = "fsspec"   -> [res |-> fsspec_get_source(loader, B, template), cache |-> cache]
      [] loader.kind = "fs"       -> [res |-> fs_get_source(loader, B, template), cache |-> cache]
      [] loader.kind = "package"  -> [res |-> package_get_source(loader, B, template), cache |-> cache]
      [] loader.kind = "dict"     -> [res |-> dict_get_source(loader, template), cache |-> cache]

Present(dir) == {n \in DOMAIN dir : dir[n] # Absent}

\* a listing that also yields names under which the store holds no file
fsspec_list_templates_all(loader, B) == DOMAIN B.fsspec[loader.url]

\* FsSpecFileSystemLoader.list_templates: the files the walk of the store finds
fsspec_list_templates(loader, B) == Present(B.fsspec[loader.url])

\* FsSpecProtocolPathLoader.list_templates
protocol_list_templates == {}

\* loader.list_templates(), as the set of names listed
RECURSIVE list_templates(_, _)
list_templates(loader, B) ==
    CASE loader.kind = "choice"   ->
            UNION {list_templates(loader.loaders[i], B) : i \in 1..Len(loader.loaders)}
      [] loader.kind = "protocol" -> protocol_list_templates
      [] loader.kind = "fsspec"   -> fsspec_list_templates(loader, B)
      [] loader.kind = "fs"       ->
            IF AsPosix(loader.searchpath) \in DOMAIN B.fs
            THEN Present(B.fs[AsPosix(loader.searchpath)]) ELSE {}
      [] loader.kind = "package"  -> Present(B.pkg[loader.package])
      [] loader.kind = "dict"     -> {e[1] : e \in loader.mapping}

----------------------------------------------------------------------------------------------------------------------------------------
\* Initial state: an empty registry, and the backing stores

Files(x, a) ==
    [n \in AllNames |-> IF n = "x.txt" THEN x ELSE IF n = "a.html" THEN a ELSE Absent]

\* files given to add_template: f exists, g does not
FileF == <<"f">>
FileG == <<"g">>

World ==
    [fs     |-> [p \in {PathD, PathT} |->
                    IF p = PathD THEN Files("dir-x", "dir-a") ELSE Files(Absent, "t-a")],
     fsspec |-> [u \in UrlPaths |->
                    IF u = UrlD THEN Files("url-x", Denied) ELSE Files(Absent, Absent)],
     pkg    |-> [k \in Packages |->
                    IF k = "mypkg" THEN Files(Absent, "pkg-a") ELSE Files(Absent, Absent)],
     remote |-> [n \in AllNames |-> IF n = RemoteName THEN "remote-1" ELSE Absent],
     local  |-> [f \in {FileF, FileG} |-> IF f = FileF THEN "text-f" ELSE Absent]]

NoCall == [op |-> "none", path |-> <<>>, package |-> "", dir_paths |-> <<>>,
           module_paths |-> <<>>, static |-> {}, fsspec_paths |-> FALSE,
           new_loader |-> [type |-> "none"], before |-> None, ret |-> None,
           args |-> <<>>, extras |-> {}, exc |-> ""]

NoResolve == [op |-> "none", name |-> "", res |-> Raise(""), names |-> {}]

Empty == [k \in {} |-> None]

\* the threads that call the registry
Callers == {"t1", "t2"}
Idle == [pc |-> "idle", op |-> "none", path |-> <<>>, package |-> "", ret |-> None]

\* envglobals.ENV_GLOBALS, as far as with_globals can tell: one preset global
ENV_GLOBALS == [k \in {"now"} |-> "utcnow"]
NoBlock == [phase |-> "none", kwargs |-> <<>>, temp |-> <<>>, before |-> <<>>]
NoTree == [op |-> "none", sort_criteria |-> "", reverse_sort |-> FALSE,
           hide_empty |-> FALSE, iterdir |-> <<>>, entries |-> <<>>]
\* LoaderRegistry(): three empty caches
LoaderRegistry == [fs |-> Empty, fsspec |-> Empty, pkg |-> Empty,
                   made |-> [fs |-> [k \in {} |-> 0], fsspec |-> [k \in {} |-> 0],
                             pkg |-> [k \in {} |-> 0]],
                   next |-> 1]

NoLoad == [op |-> "none", paths |-> <<>>, exc |-> "", before |-> <<>>, loaded |-> <<>>]
NoOut == [op |-> "none", path |-> <<>>, detail |-> FALSE, exc |-> "", out |-> <<>>,
          order |-> <<>>]

Init ==
    /\ fs_loaders = Empty
    /\ fsspec_loaders = Empty
    /\ package_loaders = Empty
    /\ constructed = [fs |-> [k \in {} |-> 0], fsspec |-> [k \in {} |-> 0],
                      pkg |-> [k \in {} |-> 0]]
    /\ nextId = 1
    /\ earlier = NoCall
    /\ lastCall = NoCall
    /\ backend = World
    /\ fsspec_cache = [k \in {} |-> ""]
    /\ resolved = NoResolve
    /\ env_loader = None
    /\ callers = [t \in Callers |-> Idle]
    /\ extra_files = {}
    /\ extra_paths = {}
    /\ env_globals = ENV_GLOBALS
    /\ with_ctx = NoBlock
    /\ fs_out = NoOut
    /\ collections = <<>>
    /\ mgr_out = NoLoad
    /\ tree_out = NoTree
    /\ loaderregistry_registry = LoaderRegistry

----------------------------------------------------------------------------
\* Calls on the registry

\* the registry after a call, and the call's record
Commit(r, call) ==
    /\ r.reg.next <= MaxObjects + 1
    /\ \A k \in DOMAIN r.reg.made.fs : r.reg.made.fs[k] <= MaxObjects
    /\ \A k \in DOMAIN r.reg.made.fsspec : r.reg.made.fsspec[k] <= MaxObjects
    /\ \A k \in DOMAIN r.reg.made.pkg : r.reg.made.pkg[k] <= MaxObjects
    /\ fs_loaders' = r.reg.fs
    /\ fsspec_loaders' = r.reg.fsspec
    /\ package_loaders' = r.reg.pkg
    /\ constructed' = r.reg.made
    /\ nextId' = r.reg.next
    /\ lastCall' = [call EXCEPT !.ret = r.ret]
    /\ resolved' = NoResolve
    /\ UNCHANGED <<backend, fsspec_cache, rest>>
    /\ UNCHANGED later

\* the history either keeps this call for later comparison or stays as it is
Remember == earlier' = lastCall' \/ UNCHANGED earlier

GetFsspecLoader ==
    \E path \in UrlPaths :
        /\ Commit(get_fsspec_loader(Registry, path),
                  [NoCall EXCEPT !.op = "get_fsspec_loader", !.path = path])
        /\ Remember
        /\ UNCHANGED env_loader

GetFilesystemLoader ==
    \E path \in FsPaths :
        /\ Commit(get_filesystem_loader(Registry, path),
                  [NoCall EXCEPT !.op = "get_filesystem_loader", !.path = path])
        /\ Remember
        /\ UNCHANGED env_loader

GetPackageLoader ==
    \E package \in Packages :
        /\ Commit(get_package_loader(Registry, package),
                  [NoCall EXCEPT !.op = "get_package_loader", !.package = package])
        /\ Remember
        /\ UNCHANGED env_loader

ByPath ==
    \E path \in DirPaths :
        /\ Commit(by_path(Registry, path), [NoCall EXCEPT !.op = "by_path", !.path = path])
        /\ UNCHANGED <<earlier, env_loader>>

GetLoaderStr ==
    \E path \in DirPaths :
        /\ Commit(get_loader_str(Registry, path),
                  [NoCall EXCEPT !.op = "get_loader_str", !.path = path])
        /\ UNCHANGED <<earlier, env_loader>>

GetLoaderModule ==
    \E mod \in Packages :
        /\ Commit(get_loader_module(Registry, mod),
                  [NoCall EXCEPT !.op = "get_loader_module", !.package = mod])
        /\ UNCHANGED <<earlier, env_loader>>

SeqsUpTo(S, n) == UNION {[1..k -> S] : k \in 0..n}

\* get_loader with keyword arguments only, its path lists drawn from the given sets
KwCallWith(op, DirLists, ModuleLists, StaticSet) ==
    \E dir_paths \in DirLists, module_paths \in ModuleLists,
       static \in StaticSet, fsspec_paths \in BOOLEAN :
        /\ Len(dir_paths) + Len(module_paths) <= MaxPaths
        /\ Commit(get_loader(Registry, dir_paths, module_paths, static, fsspec_paths),
                  [NoCall EXCEPT !.op = op, !.dir_paths = dir_paths,
                                 !.module_paths = module_paths, !.static = static,
                                 !.fsspec_paths = fsspec_paths])
        /\ UNCHANGED earlier

KwCall(op, DirLists, ModuleLists) == KwCallWith(op, DirLists, ModuleLists, Statics)

GetLoaderKw(DirLists, ModuleLists) ==
    /\ KwCall("get_loader", DirLists, ModuleLists)
    /\ UNCHANGED env_loader

\* Spec: the registry's getters, by_path and get_loader in all its forms
RegDirLists == {<<>>, <<UrlD>>, <<PathT, UrlT>>, <<PathDSlash, PathD>>}
RegModuleLists == {<<>>, <<"other">>}

Next ==
    \/ GetFsspecLoader
    \/ GetFilesystemLoader
    \/ GetPackageLoader
    \/ ByPath
    \/ GetLoaderStr
    \/ GetLoaderModule
    \/ GetLoaderKw(RegDirLists, RegModuleLists)

Spec == Init /\ [][Next]_vars

\* SpecBuild: chains built by get_loader from keyword arguments, over a
\* registry that positional get_loader calls fill as well
BuildDirs == {PathD, PathDSlash, UrlD}

GetLoaderPath ==
    \E path \in BuildDirs :
        /\ Commit(get_loader_str(Registry, path),
                  [NoCall EXCEPT !.op = "get_loader_str", !.path = path])
        /\ UNCHANGED <<earlier, env_loader>>

NextBuild ==
    \/ GetLoaderKw(SeqsUpTo(BuildDirs, MaxPaths), SeqsUpTo(Packages, MaxPaths))
    \/ GetLoaderPath

SpecBuild == Init /\ [][NextBuild]_vars

----------------------------------------------------------------------------
\* Environment: its loader, and the merge of a new loader into it

\* what _add_loader makes of its argument
AsLoader(new_loader, id) ==
    CASE new_loader.type = "dict" -> DictLoader(new_loader.mapping, id)
      [] new_loader.type = "str"  -> FileSystemLoader(new_loader.path, id)
      [] OTHER                    -> new_loader.loader

\* a merge that puts the new loader behind the existing ones
add_loader_append(loader, new_loader, id) ==
    LET new == AsLoader(new_loader, id)
    IN  CASE loader.kind = "choice" -> [loader EXCEPT !.loaders = @ \o <<new>>]
          [] loader.kind = "none"   -> new
          [] OTHER                  -> ChoiceLoader(<<loader, new>>, id)

\* a merge that always wraps the new and the existing loader in a new chain
add_loader_wrap(loader, new_loader, id) ==
    LET new == AsLoader(new_loader, id)
    IN  IF loader.kind = "none" THEN new ELSE ChoiceLoader(<<new, loader>>, id)

\* Environment._add_loader.  new_loader is what the caller passes: a loader,
\* a dict or a path string; id names the objects this call constructs
add_loader(loader, new_loader, id) ==
    LET new == AsLoader(new_loader, id)
    IN  CASE loader.kind = "choice" -> [loader EXCEPT !.loaders = <<new>> \o @]
          [] loader.kind = "none"   -> new
          [] OTHER                  -> ChoiceLoader(<<new, loader>>, id)

\* what callers pass to _add_loader: single loaders, a flat chain, a chain
\* holding a chain, a dict and a path string
NewLoaders(id) ==
    {[type |-> "loader", loader |-> DictLoader({<<"x.txt", "hello">>}, id)],
     [type |-> "loader", loader |-> FsSpecFileSystemLoader(UrlD, id)],
     [type |-> "loader", loader |->
        ChoiceLoader(<<PackageLoader("mypkg", id), FileSystemLoader(PathT, id)>>, id)],
     [type |-> "loader", loader |->
        ChoiceLoader(<<ChoiceLoader(<<PackageLoader("other", id)>>, id),
                       FileSystemLoader(PathD, id)>>, id)],
     [type |-> "dict", mapping |-> {<<"a.html", "dict-a">>}],
     [type |-> "str", path |-> PathDSlash]}

AddLoader ==
    \E new_loader \in NewLoaders(AllocId(nextId)) :
        /\ nextId <= MaxObjects
        /\ env_loader' = add_loader(env_loader, new_loader, AllocId(nextId))
        /\ nextId' = nextId + 1
        /\ lastCall' = [NoCall EXCEPT !.op = "_add_loader", !.new_loader = new_loader,
                                      !.before = env_loader]
        /\ resolved' = NoResolve
        /\ UNCHANGED rest
        /\ UNCHANGED <<fs_loaders, fsspec_loaders, package_loaders, constructed,
                       earlier, backend, fsspec_cache>>
        /\ UNCHANGED later

\* Environment.setup_loader: the loader becomes the chain get_loader builds
SetupLoader ==
    /\ KwCall("setup_loader", {<<>>, <<PathD>>, <<UrlT>>, <<UrlD, PathD>>}, {<<>>, <<"mypkg">>})
    /\ env_loader' = lastCall'.ret

\* Environment.get_template(name), as far as the loader decides it
EnvResolve(NameSet) ==
    \E name \in NameSet :
        /\ lastCall.op # "none"
        /\ LET g == IF env_loader = None
                    THEN [res |-> Raise("TypeError"), cache |-> fsspec_cache]
                    ELSE get_source(env_loader, backend, fsspec_cache, name)
           IN  /\ resolved' = [op |-> "get_source", name |-> name, res |-> g.res, names |-> {}]
               /\ fsspec_cache' = g.cache
        /\ UNCHANGED rest
        /\ UNCHANGED <<fs_loaders, fsspec_loaders, package_loaders, constructed, nextId,
                       earlier, lastCall, backend, env_loader>>
        /\ UNCHANGED later

EnvGetSource == EnvResolve(Names)

\* Environment.list_templates()
EnvListTemplates ==
    /\ env_loader # None
    /\ resolved' = [op |-> "list_templates", name |-> "", res |-> Raise(""),
                    names |-> list_templates(env_loader, backend)]
    /\ UNCHANGED rest
    /\ UNCHANGED <<fs_loaders, fsspec_loaders, package_loaders, constructed, nextId,
                   earlier, lastCall, backend, fsspec_cache, env_loader>>
    /\ UNCHANGED later

NextEnv ==
    \/ SetupLoader
    \/ AddLoader
    \/ EnvGetSource
    \/ EnvListTemplates

SpecEnv == Init /\ [][NextEnv]_vars

----------------------------------------------------------------------------
\* Properties of the registry (specification Spec)

IsGetter(call) ==
    call.op \in {"get_fsspec_loader", "get_filesystem_loader", "get_package_loader"}

\* the argument a getter call was given
GivenKey(call) == IF call.op = "get_package_loader" THEN <<call.package>> ELSE call.path

\* the key the getter's cache files it under
CacheKey(call) ==
    IF call.op = "get_filesystem_loader" THEN AsPosix(call.path) ELSE GivenKey(call)

SameGetter == IsGetter(earlier) /\ IsGetter(lastCall) /\ earlier.op = lastCall.op

\* C1 as stated: on one registry, two calls of a getter with the same key
\* return the identical instance and two calls with different keys return
\* distinct instances, the key being the argument of the call.
C1_Original ==
    SameGetter =>
        (GivenKey(earlier) = GivenKey(lastCall) <=> earlier.ret = lastCall.ret)

\* C1 amended: two calls of a getter return the identical instance iff their
\* keys are equal, where get_filesystem_loader compares the paths after POSIX
\* normalisation and the other two getters compare the strings as given.
C1_SameKeySameInstance ==
    SameGetter =>
        (CacheKey(earlier) = CacheKey(lastCall) <=> earlier.ret = lastCall.ret)

\* two filesystem calls whose paths differ as given and agree once normalised,
\* with other registry calls made in between
C1_Witness ==
    /\ SameGetter
    /\ lastCall.op = "get_filesystem_loader"
    /\ earlier.path = PathD /\ lastCall.path = PathDSlash
    /\ earlier.ret = lastCall.ret
    /\ DOMAIN package_loaders # {} /\ DOMAIN fsspec_loaders # {}

Kept(cache, cacheAfter) ==
    \A k \in DOMAIN cache : k \in DOMAIN cacheAfter /\ cacheAfter[k] = cache[k]

\* C2: registry cache entries are write-once: no registry operation replaces
\* the instance stored under a key or removes a key; the caches only grow.
C2_WriteOnce ==
    [][/\ Kept(fs_loaders, fs_loaders')
       /\ Kept(fsspec_loaders, fsspec_loaders')
       /\ Kept(package_loaders, package_loaders')]_vars

\* every cache holds two keys and the last call was a get_loader that found
\* all its loaders cached
C2_Witness ==
    /\ Cardinality(DOMAIN fs_loaders) = 2
    /\ Cardinality(DOMAIN fsspec_loaders) = 2
    /\ Cardinality(DOMAIN package_loaders) = 2
    /\ lastCall.op = "get_loader" /\ Len(lastCall.dir_paths) = 2

\* C3: a getter changes at most its own cache, and none at all when its key
\* is already cached.
C3_Step ==
    /\ lastCall'.op = "get_filesystem_loader" =>
          /\ fsspec_loaders' = fsspec_loaders /\ package_loaders' = package_loaders
          /\ AsPosix(lastCall'.path) \in DOMAIN fs_loaders => fs_loaders' = fs_loaders
    /\ lastCall'.op = "get_fsspec_loader" =>
          /\ fs_loaders' = fs_loaders /\ package_loaders' = package_loaders
          /\ lastCall'.path \in DOMAIN fsspec_loaders => fsspec_loaders' = fsspec_loaders
    /\ lastCall'.op = "get_package_loader" =>
          /\ fs_loaders' = fs_loaders /\ fsspec_loaders' = fsspec_loaders
          /\ lastCall'.package \in DOMAIN package_loaders =>
                package_loaders' = package_loaders

C3_CachesIndependent == [][C3_Step]_vars

\* a getter has just filled its own cache while the other two hold entries
C3_Witness ==
    /\ lastCall.op = "get_fsspec_loader"
    /\ DOMAIN fsspec_loaders = UrlPaths
    /\ DOMAIN fs_loaders # {} /\ DOMAIN package_loaders # {}

\* the keys a call added to a cache
Added(cache, cacheAfter) == (DOMAIN cacheAfter) \ (DOMAIN cache)

Range(seq) == {seq[i] : i \in 1..Len(seq)}

\* C4: by_path(p), and get_loader for each directory path, uses the fsspec
\* cache exactly when the path contains "://" and the filesystem cache
\* otherwise, and never enters a path in both caches.
C4_Step ==
    /\ lastCall'.op = "by_path" =>
          LET p == lastCall'.path
          IN  IF HasProtocolSep(p)
              THEN /\ p \in DOMAIN fsspec_loaders' /\ lastCall'.ret = fsspec_loaders'[p]
                   /\ lastCall'.ret.kind = "fsspec"
                   /\ fs_loaders' = fs_loaders
              ELSE /\ AsPosix(p) \in DOMAIN fs_loaders'
                   /\ lastCall'.ret = fs_loaders'[AsPosix(p)]
                   /\ lastCall'.ret.kind = "fs"
                   /\ fsspec_loaders' = fsspec_loaders
    /\ lastCall'.op = "get_loader" =>
          LET urls == {p \in Range(lastCall'.dir_paths) : HasProtocolSep(p)}
              dirs == {AsPosix(p) : p \in Range(lastCall'.dir_paths) \ urls}
          IN  /\ urls \subseteq DOMAIN fsspec_loaders'
              /\ dirs \subseteq DOMAIN fs_loaders'
              /\ Added(fsspec_loaders, fsspec_loaders') \subseteq urls
              /\ Added(fs_loaders, fs_loaders') \subseteq dirs

C4_PathDispatch == [][C4_Step]_vars

\* by_path has just made the fsspec loader of a URL, and get_loader had
\* cached a directory of either kind before
C4_Witness ==
    /\ lastCall.op = "by_path" /\ lastCall.path = UrlD
    /\ lastCall.ret.kind = "fsspec"
    /\ UrlT \in DOMAIN fsspec_loaders /\ PathT \in DOMAIN fs_loaders

----------------------------------------------------------------------------
\* Properties of the chain get_loader builds (specification SpecBuild)

Built == lastCall.op = "get_loader"

Children == lastCall.ret.loaders

\* the loader the registry holds for a directory path
CachedForDir(p) ==
    IF HasProtocolSep(p)
    THEN IF p \in DOMAIN fsspec_loaders THEN fsspec_loaders[p] ELSE None
    ELSE IF AsPosix(p) \in DOMAIN fs_loaders THEN fs_loaders[AsPosix(p)] ELSE None

CachedForPackage(p) ==
    IF p \in DOMAIN package_loaders THEN package_loaders[p] ELSE None

\* C5: the children of the chain get_loader returns are, in this order, the
\* package loaders of the module paths, the loaders of the directory paths,
\* the loader of the static mapping and the protocol path loader; the package
\* and directory children are the instances the registry caches hold (a path
\* listed twice has one child, at its first place).
C5_ChildOrder ==
    Built =>
        LET mp == reduce_list(lastCall.module_paths)
            dp == reduce_list(lastCall.dir_paths)
            ns == IF lastCall.static # {} THEN 1 ELSE 0
            nf == IF lastCall.fsspec_paths THEN 1 ELSE 0
        IN  /\ lastCall.ret.kind = "choice"
            /\ Len(Children) = Len(mp) + Len(dp) + ns + nf
            /\ \A i \in 1..Len(mp) :
                  /\ Children[i].kind = "package" /\ Children[i].package = mp[i]
                  /\ Children[i] = CachedForPackage(mp[i])
            /\ \A j \in 1..Len(dp) :
                  /\ Children[Len(mp) + j].kind = (IF HasProtocolSep(dp[j]) THEN "fsspec" ELSE "fs")
                  /\ Children[Len(mp) + j] = CachedForDir(dp[j])
            /\ ns = 1 => Children[Len(mp) + Len(dp) + 1].kind = "dict"
            /\ nf = 1 => Children[Len(mp) + Len(dp) + ns + 1].kind = "protocol"

\* a chain of all four kinds of children: package, directory, static, fallback
C5_Witness ==
    /\ Built
    /\ lastCall.module_paths = <<"mypkg">> /\ lastCall.dir_paths = <<PathDSlash>>
    /\ Len(Children) = 4
    /\ Children[1].kind = "package" /\ Children[2].kind = "fs"
    /\ Children[3].kind = "dict" /\ Children[4].kind = "protocol"

KindCount(kind) == Cardinality({i \in 1..Len(Children) : Children[i].kind = kind})

\* C6: the chain holds the loader of the static mapping iff the mapping is not
\* empty, and the protocol path loader iff fsspec_paths is true; the protocol
\* path loader is then the last child, also after an fsspec loader of the chain.
C6_StaticAndFallback ==
    Built =>
        /\ KindCount("dict") = (IF lastCall.static # {} THEN 1 ELSE 0)
        /\ \A i \in 1..Len(Children) :
              Children[i].kind = "dict" => Children[i].mapping = lastCall.static
        /\ KindCount("protocol") = (IF lastCall.fsspec_paths THEN 1 ELSE 0)
        /\ lastCall.fsspec_paths => Children[Len(Children)].kind = "protocol"

\* the fallback is last in a chain that holds a remote loader and a static mapping
C6_Witness ==
    /\ Built
    /\ lastCall.fsspec_paths /\ lastCall.static # {}
    /\ Children[1].kind = "fsspec"
    /\ Children[Len(Children)].kind = "protocol"
    /\ Children[Len(Children) - 1].kind = "dict"

\* the claim's example: a directory, a package and the mapping {"x.txt": "hello"},
\* built by setup_loader and used as the environment's loader (specification
\* SpecEnv)
C10_Example ==
    /\ lastCall.op = "setup_loader"
    /\ lastCall.static = {<<"x.txt", "hello">>}
    /\ Len(lastCall.dir_paths) = 1 /\ Len(lastCall.module_paths) = 1

\* C10 as stated: the chain of the example lists "x.txt" and resolves it to
\* "hello" whether or not the directory holds an x.txt.
C10_Original ==
    C10_Example =>
        /\ resolved.op = "list_templates" => "x.txt" \in resolved.names
        /\ (resolved.op = "get_source" /\ resolved.name = "x.txt") =>
              resolved.res = Ok("hello")

\* what the package and directory loaders of the call answer for a name, in the
\* order of the arguments
ArgLoaders ==
    LET mp == reduce_list(lastCall.module_paths)
        dp == reduce_list(lastCall.dir_paths)
    IN  [i \in 1..Len(mp) |-> CachedForPackage(mp[i])]
        \o [j \in 1..Len(dp) |-> CachedForDir(dp[j])]

Answer(loader, name) == get_source(loader, backend, fsspec_cache, name).res

\* C10 amended: the chain of the example lists "x.txt"; it resolves it to
\* "hello" only when neither the package nor the directory answers for
\* x.txt, and to the answer of the first of them otherwise: the package and
\* directory loaders take precedence over the static mapping.
C10_DirectoryBeforeStatic ==
    C10_Example =>
        /\ resolved.op = "list_templates" => "x.txt" \in resolved.names
        /\ (resolved.op = "get_source" /\ resolved.name = "x.txt") =>
              LET hits == {i \in 1..Len(ArgLoaders) : Answer(ArgLoaders[i], "x.txt") # NotFound}
              IN  IF hits = {}
                  THEN resolved.res = Ok("hello")
                  ELSE resolved.res =
                         Answer(ArgLoaders[CHOOSE i \in hits : \A j \in hits : i <= j], "x.txt")

\* the directory holds an x.txt and the chain answers with it, not with "hello"
C10_Witness ==
    /\ C10_Example
    /\ lastCall.dir_paths = <<PathD>>
    /\ backend.fs[PathD]["x.txt"] = "dir-x"
    /\ list_templates(env_loader, backend) = {"x.txt", "a.html"}
    /\ resolved.op = "get_source" /\ resolved.name = "x.txt"
    /\ resolved.res = Ok("dir-x")

----------------------------------------------------------------------------
\* Properties of chains in use and of the merge (specification SpecEnv)

Resolved == resolved.op = "get_source" /\ env_loader.kind = "choice"

EnvChildren == env_loader.loaders

\* the loader the last _add_loader call merged in
Merged == AsLoader(lastCall.new_loader, AllocId(nextId - 1))

\* C7: first match wins: when the first child of a chain resolves a name,
\* the chain returns that child's result, also when a later child resolves
\* the name to another source; a loader merged in by _add_loader is this
\* first child.
C7_FirstMatchWins ==
    /\ (Resolved /\ EnvChildren # <<>>) =>
          LET a == Answer(EnvChildren[1], resolved.name)
          IN  a.status = "ok" => resolved.res = a
    /\ (Resolved /\ lastCall.op = "_add_loader") =>
          LET a == Answer(Merged, resolved.name)
          IN  a.status = "ok" => resolved.res = a

\* the first and the second child resolve the name to different sources
C7_Witness ==
    /\ Resolved /\ Len(EnvChildren) >= 2
    /\ Answer(EnvChildren[1], resolved.name).status = "ok"
    /\ Answer(EnvChildren[2], resolved.name).status = "ok"
    /\ Answer(EnvChildren[1], resolved.name) # Answer(EnvChildren[2], resolved.name)
    /\ resolved.res = Answer(EnvChildren[1], resolved.name)

\* children before i all fail with TemplateNotFound
NoneBefore(i) == \A j \in 1..(i - 1) : Answer(EnvChildren[j], resolved.name) = NotFound

\* C8: a chain fails with TemplateNotFound iff every child does; the
\* TemplateNotFound of a child is passed over while children remain, and the
\* first other outcome, a result or an error, is the outcome of the chain: an
\* error of a child's backend other than a missing file is not swallowed.
C8_NotFoundIffAll ==
    Resolved =>
        /\ resolved.res = NotFound <=>
              \A i \in 1..Len(EnvChildren) : Answer(EnvChildren[i], resolved.name) = NotFound
        /\ \A i \in 1..Len(EnvChildren) :
              (NoneBefore(i) /\ Answer(EnvChildren[i], resolved.name) # NotFound) =>
                  resolved.res = Answer(EnvChildren[i], resolved.name)
        /\ \A i \in 1..Len(EnvChildren) :
              (NoneBefore(i) /\ EnvChildren[i].kind = "fsspec") =>
                  LET o == Open(backend.fsspec[EnvChildren[i].url][resolved.name])
                  IN  o.exc \notin {"", "FileNotFoundError"} => resolved.res = Raise(o.exc)

\* the first child does not know the name, the second fails to read it, and
\* the third, which holds it, is not asked
C8_Witness ==
    /\ Resolved /\ Len(EnvChildren) = 3
    /\ Answer(EnvChildren[1], resolved.name) = NotFound
    /\ EnvChildren[2].kind = "fsspec"
    /\ Answer(EnvChildren[3], resolved.name).status = "ok"
    /\ resolved.res = Raise("PermissionError")

IsFlat(chain) == \A i \in 1..Len(chain.loaders) : chain.loaders[i].kind # "choice"

\* the loaders of a loader in the order they are tried
RECURSIVE Leaves(_)
RECURSIVE LeavesOf(_)
LeavesOf(children) ==
    IF children = <<>> THEN <<>> ELSE Leaves(Head(children)) \o LeavesOf(Tail(children))
Leaves(loader) == IF loader.kind = "choice" THEN LeavesOf(loader.loaders) ELSE <<loader>>

MergedIntoChain == lastCall.op = "_add_loader" /\ lastCall.before.kind = "choice"

----------------------------------------------------------------------------
\* Protocol-style names and single providers (specifications SpecRemote and
\* SpecStore)

\* the providers an environment is given directly
Providers(id) ==
    {FsSpecProtocolPathLoader(id), FsSpecFileSystemLoader(UrlD, id),
     FsSpecFileSystemLoader(UrlT, id), FileSystemLoader(PathD, id),
     PackageLoader("mypkg", id), DictLoader({<<"x.txt", "hello">>}, id)}

\* env.loader = P
SetLoader ==
    \E loader \in Providers(AllocId(nextId)) :
        /\ nextId <= MaxObjects
        /\ env_loader' = loader
        /\ nextId' = nextId + 1
        /\ lastCall' = [NoCall EXCEPT !.op = "set_loader", !.ret = loader]
        /\ resolved' = NoResolve
        /\ UNCHANGED rest
        /\ UNCHANGED <<fs_loaders, fsspec_loaders, package_loaders, constructed,
                       earlier, backend, fsspec_cache>>
        /\ UNCHANGED later

RemoteDirLists    == {<<>>, <<UrlD>>, <<PathD>>}
RemoteModuleLists == {<<>>, <<"mypkg">>}
RemoteStatics     == {{}, {<<RemoteName, "static-r">>}}

\* setup_loader with a static mapping that may hold a protocol-style name
SetupRemote ==
    /\ KwCallWith("setup_loader", RemoteDirLists, RemoteModuleLists, RemoteStatics)
    /\ env_loader' = lastCall'.ret

NextRemote ==
    \/ SetupRemote
    \/ SetLoader
    \/ EnvResolve(AllNames)
    \/ EnvListTemplates

SpecRemote == Init /\ [][NextRemote]_vars

\* a protocol-style name was resolved through a chain built by get_loader
RemoteResolved ==
    /\ lastCall.op = "setup_loader"
    /\ resolved.op = "get_source" /\ resolved.name \in RemoteNames

RemoteExists(name) == backend.remote[name] \notin {Absent, Denied}

\* the children of the chain other than the protocol path loader
OtherChildren == SelectSeq(EnvChildren, LAMBDA l : l.kind # "protocol")

AllNotFound(children, name) ==
    \A i \in 1..Len(children) : Answer(children[i], name) = NotFound

\* C11 as stated: with fsspec_paths a protocol-style name whose remote file
\* exists resolves to that file through the protocol path loader, whatever
\* the other children of the chain are; without fsspec_paths, and no child
\* knowing the name, the chain fails with TemplateNotFound.
C11_Original ==
    RemoteResolved =>
        /\ (lastCall.fsspec_paths /\ RemoteExists(resolved.name)) =>
              resolved.res = Ok(backend.remote[resolved.name])
        /\ (~lastCall.fsspec_paths /\ AllNotFound(EnvChildren, resolved.name)) =>
              resolved.res = NotFound

\* C11 amended: with fsspec_paths a protocol-style name whose remote file
\* exists resolves to that file through the protocol path loader, also when
\* no directory path of that scheme was given, provided every other child of
\* the chain fails with TemplateNotFound for the name: the protocol path
\* loader is tried last, so another child that holds the name answers instead.
\* Without fsspec_paths, and no child knowing the name, the chain fails with
\* TemplateNotFound.
C11_FallbackResolves ==
    RemoteResolved =>
        /\ (lastCall.fsspec_paths /\ RemoteExists(resolved.name)
              /\ AllNotFound(OtherChildren, resolved.name)) =>
              /\ EnvChildren # <<>>
              /\ EnvChildren[Len(EnvChildren)].kind = "protocol"
              /\ resolved.res = Ok(backend.remote[resolved.name])
        /\ (lastCall.fsspec_paths /\ ~AllNotFound(OtherChildren, resolved.name)) =>
              \E i \in 1..Len(OtherChildren) :
                  /\ AllNotFound(SubSeq(OtherChildren, 1, i - 1), resolved.name)
                  /\ resolved.res = Answer(OtherChildren[i], resolved.name)
                  /\ resolved.res # NotFound
        /\ (~lastCall.fsspec_paths /\ AllNotFound(EnvChildren, resolved.name)) =>
              resolved.res = NotFound

\* the remote file is served by a chain of a package and a local directory
C11_Witness ==
    /\ RemoteResolved
    /\ lastCall.fsspec_paths
    /\ lastCall.dir_paths = <<PathD>> /\ lastCall.module_paths = <<"mypkg">>
    /\ fsspec_loaders = Empty
    /\ resolved.name = RemoteName
    /\ resolved.res = Ok("remote-1")

\* C12: every name a loader or a chain lists resolves through the same loader
\* or chain without TemplateNotFound, the backing stores being the same for
\* the listing and the resolve.
C12_ListedResolves ==
    env_loader # None =>
        \A name \in list_templates(env_loader, backend) :
            Answer(env_loader, name) # NotFound

\* a chain of a package, a remote directory and the protocol path loader was
\* listed; the remote directory lists a file it cannot read
C12_Witness ==
    /\ resolved.op = "list_templates"
    /\ env_loader.kind = "choice" /\ Len(EnvChildren) = 3
    /\ EnvChildren[2].kind = "fsspec" /\ EnvChildren[3].kind = "protocol"
    /\ resolved.names = {"x.txt", "a.html"}
    /\ Answer(EnvChildren[2], "a.html") = Raise("PermissionError")

----------------------------------------------------------------------------
\* Single providers over stores that change (specification SpecStore)

Contents == {Absent, "remote-1", "remote-2"}

\* somebody writes, replaces or removes a file of a remote store
StoreWrite ==
    /\ \E v \in Contents :
          \/ backend' = [backend EXCEPT !.remote[RemoteName] = v]
          \/ backend' = [backend EXCEPT !.fsspec[UrlD]["x.txt"] = v]
    /\ backend' # backend
    /\ resolved' = NoResolve
    /\ UNCHANGED rest
    /\ UNCHANGED <<fs_loaders, fsspec_loaders, package_loaders, constructed, nextId,
                   earlier, lastCall, fsspec_cache, env_loader>>
    /\ UNCHANGED later

NextStore ==
    \/ SetLoader
    \/ EnvResolve(AllNames)
    \/ StoreWrite

SpecStore == Init /\ [][NextStore]_vars

\* a single provider was asked for a name
ProviderResolved == lastCall.op = "set_loader" /\ resolved.op = "get_source"

\* the entry of the provider's backing store for a name, as the store is now
StoreEntry(loader, name) ==
    CASE loader.kind = "protocol" -> backend.remote[name]
      [] loader.kind = "fsspec"   -> backend.fsspec[loader.url][name]
      [] loader.kind = "fs"       -> backend.fs[AsPosix(loader.searchpath)][name]
      [] loader.kind = "package"  -> backend.pkg[loader.package][name]
      [] loader.kind = "dict"     ->
            IF \E e \in loader.mapping : e[1] = name
            THEN (CHOOSE e \in loader.mapping : e[1] = name)[2] ELSE Absent

\* what reading that entry gives: the source, TemplateNotFound for a missing
\* file, the error of the store otherwise
ReadNow(loader, name) ==
    LET o == Open(StoreEntry(loader, name))
    IN  IF o.exc = "FileNotFoundError" THEN NotFound
        ELSE IF o.exc # "" THEN Raise(o.exc)
        ELSE Ok(o.data)

\* C13 as stated: get_source of a provider fails with TemplateNotFound for
\* every name its backing store does not contain.
C13_Original ==
    ProviderResolved =>
        (StoreEntry(env_loader, resolved.name) = Absent => resolved.res = NotFound)

\* C13 amended: get_source of a provider fails with TemplateNotFound for
\* every name its backing store does not contain, the FileNotFoundError of
\* the store being translated and never passed on; the protocol path loader
\* does so for the names it has not fetched before, and answers a name it
\* has fetched with the source it fetched then.
C13_MissingIsNotFound ==
    ProviderResolved =>
        /\ resolved.res # Raise("FileNotFoundError")
        /\ (StoreEntry(env_loader, resolved.name) = Absent
              /\ ~(env_loader.kind = "protocol" /\ resolved.name \in DOMAIN fsspec_cache)) =>
              resolved.res = NotFound
        /\ (StoreEntry(env_loader, resolved.name) = Absent
              /\ env_loader.kind = "protocol" /\ resolved.name \in DOMAIN fsspec_cache) =>
              resolved.res = Ok(fsspec_cache[resolved.name])

\* the protocol path loader was asked for a name whose remote file is gone
\* and which it never fetched
C13_Witness ==
    /\ ProviderResolved
    /\ env_loader.kind = "protocol"
    /\ resolved.name = RemoteName
    /\ backend.remote[RemoteName] = Absent
    /\ fsspec_cache = Empty
    /\ resolved.res = NotFound

\* C14 as stated: every get_source of the protocol path loader and of the
\* fsspec filesystem loader reads the store: the result is the content the
\* store holds now, or TemplateNotFound when the file is gone.
C14_Original ==
    (ProviderResolved /\ env_loader.kind \in {"protocol", "fsspec"}) =>
        resolved.res = ReadNow(env_loader, resolved.name)

C14_Resolve ==
    /\ (ProviderResolved /\ env_loader.kind = "fsspec") =>
          resolved.res = ReadNow(env_loader, resolved.name)
    /\ (ProviderResolved /\ env_loader.kind = "protocol") =>
          IF resolved.res.status = "ok"
          THEN /\ resolved.name \in DOMAIN fsspec_cache
               /\ resolved.res = Ok(fsspec_cache[resolved.name])
          ELSE /\ resolved.name \notin DOMAIN fsspec_cache
               /\ resolved.res = ReadNow(env_loader, resolved.name)

C14_Memo ==
    \A name \in DOMAIN fsspec_cache :
        /\ name \in DOMAIN fsspec_cache'
        /\ fsspec_cache'[name] = fsspec_cache[name]
        /\ (resolved'.op = "get_source" /\ resolved'.name = name
              /\ env_loader'.kind = "protocol") => resolved'.res = Ok(fsspec_cache[name])

\* C14 amended: every get_source of the fsspec filesystem loader reads the
\* store and gives its current content.  The protocol path loader reads the
\* store only until a fetch of the name succeeds: utils.fsspec_get keeps the
\* fetched content for the life of the process, and every later resolve of
\* the name gives that content without reading, also when the remote file
\* has changed or is gone; a fetch that fails is not kept.
C14_FirstFetchKept == []C14_Resolve /\ [][C14_Memo]_vars

\* the protocol path loader answers with the content it fetched before the
\* remote file was replaced
C14_Witness ==
    /\ ProviderResolved
    /\ env_loader.kind = "protocol"
    /\ resolved.name = RemoteName
    /\ backend.remote[RemoteName] = "remote-2"
    /\ resolved.res = Ok("remote-1")

----------------------------------------------------------------------------
\* Concurrent callers of the registry getters (specification SpecRace).  A
\* getter is two steps of its thread: the membership test with the return of
\* a cached loader, and the construction with the insert; another thread may
\* run between the two.

\* the cache a getter reads and writes, and the key it uses for its argument
CacheOfGetter(c) ==
    CASE c.op = "get_fsspec_loader"     -> fsspec_loaders
      [] c.op = "get_filesystem_loader" -> fs_loaders
      [] c.op = "get_package_loader"    -> package_loaders

KeyOfGetter(c) ==
    CASE c.op = "get_fsspec_loader"     -> c.path
      [] c.op = "get_filesystem_loader" -> AsPosix(c.path)
      [] c.op = "get_package_loader"    -> c.package

RaceCalls ==
    {[Idle EXCEPT !.op = "get_fsspec_loader", !.path = UrlD],
     [Idle EXCEPT !.op = "get_filesystem_loader", !.path = PathD],
     [Idle EXCEPT !.op = "get_filesystem_loader", !.path = PathDSlash],
     [Idle EXCEPT !.op = "get_package_loader", !.package = "mypkg"]}

\* 'if key in cache: return cache[key]'
Lookup(t) ==
    \E c \in RaceCalls :
        /\ callers[t].pc = "idle"
        /\ callers' = [callers EXCEPT ![t] =
              IF KeyOfGetter(c) \in DOMAIN CacheOfGetter(c)
              THEN [c EXCEPT !.ret = CacheOfGetter(c)[KeyOfGetter(c)]]
              ELSE [c EXCEPT !.pc = "missed"]]
        /\ UNCHANGED <<fs_loaders, fsspec_loaders, package_loaders, constructed, nextId,
                       earlier, lastCall, backend, fsspec_cache, resolved, env_loader,
                       extra_files, extra_paths, env_globals, with_ctx, fs_out>>
        /\ UNCHANGED later

\* 'loader = Loader(key); cache[key] = loader; return loader'
Store(t) ==
    LET c   == callers[t]
        key == KeyOfGetter(c)
    IN  /\ c.pc = "missed"
        /\ CASE c.op = "get_fsspec_loader" ->
                  LET n == Made(constructed.fsspec, key) + 1
                      loader == FsSpecFileSystemLoader(key, CacheId(n))
                  IN  /\ fsspec_loaders' = Put(fsspec_loaders, key, loader)
                      /\ constructed' = [constructed EXCEPT !.fsspec = Put(@, key, n)]
                      /\ callers' = [callers EXCEPT ![t] = [c EXCEPT !.pc = "idle", !.ret = loader]]
                      /\ UNCHANGED <<fs_loaders, package_loaders>>
                      /\ UNCHANGED later
             [] c.op = "get_filesystem_loader" ->
                  LET n == Made(constructed.fs, key) + 1
                      loader == FileSystemLoader(key, CacheId(n))
                  IN  /\ fs_loaders' = Put(fs_loaders, key, loader)
                      /\ constructed' = [constructed EXCEPT !.fs = Put(@, key, n)]
                      /\ callers' = [callers EXCEPT ![t] = [c EXCEPT !.pc = "idle", !.ret = loader]]
                      /\ UNCHANGED <<fsspec_loaders, package_loaders>>
                      /\ UNCHANGED later
             [] c.op = "get_package_loader" ->
                  LET n == Made(constructed.pkg, key) + 1
                      loader == PackageLoader(key, CacheId(n))
                  IN  /\ package_loaders' = Put(package_loaders, key, loader)
                      /\ constructed' = [constructed EXCEPT !.pkg = Put(@, key, n)]
                      /\ callers' = [callers EXCEPT ![t] = [c EXCEPT !.pc = "idle", !.ret = loader]]
                      /\ UNCHANGED <<fs_loaders, fsspec_loaders>>
        /\ UNCHANGED <<nextId, earlier, lastCall, backend, fsspec_cache, resolved,
                       env_loader, extra_files, extra_paths, env_globals, with_ctx, fs_out>>
        /\ UNCHANGED later

NextRace == \E t \in Callers : Lookup(t) \/ Store(t)

SpecRace == Init /\ [][NextRace]_vars

\* C15: with concurrent callers, one loader at most is constructed for a key,
\* and two callers that asked for the same key hold the same instance.
C15_Original ==
    /\ \A k \in DOMAIN constructed.fsspec : constructed.fsspec[k] <= 1
    /\ \A k \in DOMAIN constructed.fs : constructed.fs[k] <= 1
    /\ \A k \in DOMAIN constructed.pkg : constructed.pkg[k] <= 1
    /\ \A t, u \in Callers :
          (/\ callers[t].op = callers[u].op /\ callers[t].op # "none"
           /\ callers[t].ret # None /\ callers[u].ret # None
           /\ KeyOfGetter(callers[t]) = KeyOfGetter(callers[u])) =>
              callers[t].ret = callers[u].ret

----------------------------------------------------------------------------
\* Templates and search paths added at runtime (specification SpecTemplates)

\* an argument of type str | os.PathLike
Str(text)      == [type |-> "str", text |-> text]
PathLike(text) == [type |-> "path", text |-> text]

\* str(p): a str is itself, a pathlib path is its normalised form
StrOf(p) == IF p.type = "path" THEN AsPosix(p.text) ELSE p.text

\* envglobals.load_file_cached(file): the text of the file, or the error of
\* the read
load_file_cached(B, file) ==
    Open(IF file \in DOMAIN B.local THEN B.local[file] ELSE Absent)

\* Environment.add_template.  E is the environment: its loader, its
\* _extra_files and the number of the next allocation; exc is the exception
\* the call ends with, "" when it returns
add_template(E, arg) ==
    LET file == StrOf(arg)
        o    == load_file_cached(backend, file)
    IN  IF file \in E.extra_files THEN [E EXCEPT !.exc = ""]
        ELSE IF o.exc # "" THEN [E EXCEPT !.extra_files = @ \cup {file}, !.exc = o.exc]
        ELSE [loader      |-> add_loader(E.loader,
                                [type |-> "loader",
                                 loader |-> DictLoader({<<file, o.data>>}, AllocId(E.next))],
                                AllocId(E.next)),
              extra_files |-> E.extra_files \cup {file},
              next        |-> E.next + 1,
              exc         |-> ""]

TemplateArgs == {Str(FileF), PathLike(<<".", "/", "f">>), Str(FileG)}

AddTemplate ==
    \E arg \in TemplateArgs :
        LET E == add_template([loader |-> env_loader, extra_files |-> extra_files,
                               next |-> nextId, exc |-> ""], arg)
        IN  /\ E.next <= MaxObjects + 1
            /\ env_loader' = E.loader
            /\ extra_files' = E.extra_files
            /\ nextId' = E.next
            /\ lastCall' = [NoCall EXCEPT !.op = "add_template", !.args = <<arg>>,
                                          !.before = env_loader, !.extras = extra_files,
                                          !.exc = E.exc]
            /\ UNCHANGED <<fs_loaders, fsspec_loaders, package_loaders, constructed,
                           earlier, backend, fsspec_cache, resolved, callers,
                           extra_paths, env_globals, with_ctx, fs_out>>
            /\ UNCHANGED later

\* 'p in self._extra_paths': the set holds str, and a path object equals no str
InExtraPaths(p, paths) == p.type = "str" /\ p.text \in paths

\* Environment.add_template_path(*path).  E is the environment: its loader,
\* its _extra_paths and the number of the next allocation
RECURSIVE add_template_path(_, _)
add_template_path(E, path) ==
    IF path = <<>> THEN E
    ELSE LET p == Head(path)
         IN  IF InExtraPaths(p, E.extra_paths) THEN E
             ELSE add_template_path(
                     [loader      |-> add_loader(E.loader,
                                        [type |-> "loader",
                                         loader |-> FileSystemLoader(StrOf(p), AllocId(E.next))],
                                        AllocId(E.next)),
                      extra_paths |-> E.extra_paths \cup {StrOf(p)},
                      next        |-> E.next + 1],
                     Tail(path))

PathArgs == {Str(PathD), Str(PathT), PathLike(PathD)}

AddTemplatePath ==
    \E path \in SeqsUpTo(PathArgs, MaxPaths) :
        LET E == add_template_path([loader |-> env_loader, extra_paths |-> extra_paths,
                                    next |-> nextId], path)
        IN  /\ path # <<>>
            /\ E.next <= MaxObjects + 1
            /\ env_loader' = E.loader
            /\ extra_paths' = E.extra_paths
            /\ nextId' = E.next
            /\ lastCall' = [NoCall EXCEPT !.op = "add_template_path", !.args = path,
                                          !.before = env_loader, !.extras = extra_paths]
            /\ UNCHANGED <<fs_loaders, fsspec_loaders, package_loaders, constructed,
                           earlier, backend, fsspec_cache, resolved, callers,
                           extra_files, env_globals, with_ctx, fs_out>>
            /\ UNCHANGED later

NextTemplates ==
    \/ AddTemplate
    \/ AddTemplatePath

SpecTemplates == Init /\ [][NextTemplates]_vars

\* the in-memory loaders of the environment's loader that hold the file
DictLoadersFor(file) ==
    SelectSeq(Leaves(env_loader),
              LAMBDA l : l.kind = "dict" /\ \E e \in l.mapping : e[1] = file)

\* C16: add_template is idempotent per file: no file has two in-memory
\* loaders, and after a call that returned the chain holds exactly one for
\* its file; a call for a file already recorded changes neither the loader
\* nor the set of extra files, and the loader of a newly added file is the
\* first one of the chain.
C16_Original ==
    /\ \A f \in {FileF, FileG} : Len(DictLoadersFor(f)) <= 1
    /\ (lastCall.op = "add_template" /\ lastCall.exc = "") =>
          LET file == StrOf(lastCall.args[1])
          IN  /\ Len(DictLoadersFor(file)) = 1
              /\ file \in extra_files
              /\ file \in lastCall.extras =>
                    (env_loader = lastCall.before /\ extra_files = lastCall.extras)
              /\ file \notin lastCall.extras =>
                    Leaves(env_loader)[1] = DictLoadersFor(file)[1]

\* the file system loaders of a loader for a search path
FsLoadersFor(loader, path) ==
    SelectSeq(Leaves(loader), LAMBDA l : l.kind = "fs" /\ l.searchpath = path)

\* C17: after add_template_path(p1, ..., pn) every pi that was not added
\* before is recorded in the extra paths and has a FileSystemLoader in the
\* chain, wherever the paths already added stand in the argument list, and
\* a path added before the call is not given another loader by it.
C17_Original ==
    lastCall.op = "add_template_path" =>
        /\ \A i \in 1..Len(lastCall.args) :
              StrOf(lastCall.args[i]) \notin lastCall.extras =>
                  /\ StrOf(lastCall.args[i]) \in extra_paths
                  /\ FsLoadersFor(env_loader, StrOf(lastCall.args[i])) # <<>>
        /\ \A path \in lastCall.extras :
              FsLoadersFor(env_loader, path) = FsLoadersFor(lastCall.before, path)

----------------------------------------------------------------------------
\* Environment.with_globals (specification SpecGlobals)

GlobalKeys == {"now", "user"}
PyNone == "<None>"

\* dict.get(k): the value, None when the key is absent
DictGet(d, k) == IF k \in DOMAIN d THEN d[k] ELSE PyNone

\* dict.update(other)
DictUpdate(d, other) ==
    [k \in (DOMAIN d) \cup (DOMAIN other) |-> IF k \in DOMAIN other THEN other[k] ELSE d[k]]

\* env.globals[k] = v outside a with_globals block
SetGlobal ==
    \E k \in GlobalKeys, v \in {"a", "b"} :
        /\ with_ctx.phase # "inside"
        /\ env_globals' = Put(env_globals, k, v)
        /\ with_ctx' = NoBlock
        /\ UNCHANGED <<fs_loaders, fsspec_loaders, package_loaders, constructed, nextId,
                       earlier, lastCall, backend, fsspec_cache, resolved, env_loader,
                       callers, extra_files, extra_paths, fs_out>>
        /\ UNCHANGED later

\* with env.with_globals(**kwargs): the code up to the yield
EnterWith ==
    \E keys \in (SUBSET GlobalKeys) \ {{}} :
        LET kwargs == [k \in keys |-> "tmp"]
        IN  /\ with_ctx.phase # "inside"
            /\ with_ctx' = [phase |-> "inside", kwargs |-> kwargs,
                            temp |-> [k \in keys |-> DictGet(env_globals, k)],
                            before |-> env_globals]
            /\ env_globals' = DictUpdate(env_globals, kwargs)
            /\ UNCHANGED <<fs_loaders, fsspec_loaders, package_loaders, constructed,
                           nextId, earlier, lastCall, backend, fsspec_cache, resolved,
                           env_loader, callers, extra_files, extra_paths, fs_out>>
            /\ UNCHANGED later

\* the block ends normally: the code after the yield runs
ExitWith ==
    /\ with_ctx.phase = "inside"
    /\ env_globals' = DictUpdate(env_globals, with_ctx.temp)
    /\ with_ctx' = [with_ctx EXCEPT !.phase = "exited"]
    /\ UNCHANGED <<fs_loaders, fsspec_loaders, package_loaders, constructed, nextId,
                   earlier, lastCall, backend, fsspec_cache, resolved, env_loader,
                   callers, extra_files, extra_paths, fs_out>>
    /\ UNCHANGED later

\* the block raises: the generator is left at the yield, which no try guards
ExitWithRaise ==
    /\ with_ctx.phase = "inside"
    /\ with_ctx' = [with_ctx EXCEPT !.phase = "exited"]
    /\ UNCHANGED <<fs_loaders, fsspec_loaders, package_loaders, constructed, nextId,
                   earlier, lastCall, backend, fsspec_cache, resolved, env_loader,
                   callers, extra_files, extra_paths, env_globals, fs_out>>
    /\ UNCHANGED later

NextGlobals ==
    \/ SetGlobal
    \/ EnterWith
    \/ ExitWith
    \/ ExitWithRaise

SpecGlobals == Init /\ [][NextGlobals]_vars

\* C18: after the with-block the globals are those before entry: a key
\* that existed has its old value, a key that did not exist is absent, and
\* the keys not named in the call are the same inside and after the block.
C18_Original ==
    /\ with_ctx.phase = "exited" =>
          /\ DOMAIN env_globals = DOMAIN with_ctx.before
          /\ \A k \in DOMAIN with_ctx.before : env_globals[k] = with_ctx.before[k]
    /\ with_ctx.phase = "inside" =>
          \A k \in (DOMAIN with_ctx.before) \ (DOMAIN with_ctx.kwargs) :
              k \in DOMAIN env_globals /\ env_globals[k] = with_ctx.before[k]

----------------------------------------------------------------------------
\* JinjaLoaderFileSystem (specification SpecJinjaFs)

\* template names and the DictLoader mappings of the environment
HomeT  == <<"h", ".", "t">>
AboutT == <<"a", ".", "t">>
SubT   == <<"s", "/", "b", ".", "t">>
SubC   == <<"s", "/", "c", ".", "t">>
OtherT == <<"r", "/", "e", ".", "t">>
DeepT  == <<"s", "/", "u", "/", "d", ".", "t">>
PlainS == <<"s">>
GoneT  == <<"x">>

TestDict  == {<<HomeT, "Home">>, <<AboutT, "About">>, <<SubT, "Sub">>}
TwoDirs   == {<<HomeT, "Home">>, <<SubT, "Sub">>, <<OtherT, "Other">>, <<SubC, "SubC">>}
DeepDict  == {<<HomeT, "Home">>, <<DeepT, "Deep">>}
ClashDict == {<<PlainS, "Plain">>, <<SubT, "Sub">>}
ClashDeep == {<<PlainS, "Plain">>, <<DeepT, "Deep">>}
Mappings  == {{}, TestDict, TwoDirs, DeepDict, ClashDict, ClashDeep}

\* the characters of the names, in code point order
Chars == <<".", "/", "a", "b", "c", "d", "e", "h", "r", "s", "t", "u", "x">>
Ord(c) == CHOOSE i \in 1..Len(Chars) : Chars[i] = c

\* str.__lt__
RECURSIVE StrLess(_, _)
StrLess(a, b) ==
    IF b = <<>> THEN FALSE
    ELSE IF a = <<>> THEN TRUE
    ELSE IF Head(a) = Head(b) THEN StrLess(Tail(a), Tail(b))
    ELSE Ord(Head(a)) < Ord(Head(b))

\* sorted(names)
RECURSIVE sorted(_)
sorted(S) ==
    IF S = {} THEN <<>>
    ELSE LET least == CHOOSE x \in S : \A y \in S \ {x} : StrLess(x, y)
         IN  <<least>> \o sorted(S \ {least})

\* env.loader.list_templates() of the jinja2 loaders: a sorted list
sorted_templates(loader, B) == sorted(list_templates(loader, B))

\* the iteration orders a set of first segments can have in one process
Orders == {<<<<"s">>, <<"r">>>>, <<<<"r">>, <<"s">>>>}

\* iterating a set of strings: the order the process's string hashing gives
SetOrder(S, order) == SelectSeq(order, LAMBDA x : x \in S)

HasSlash(p) == \E i \in 1..Len(p) : p[i] = "/"
HasDot(p)   == \E i \in 1..Len(p) : p[i] = "."

\* str.strip("/")
RECURSIVE Strip(_)
Strip(p) ==
    IF p = <<>> THEN p
    ELSE IF Head(p) = "/" THEN Strip(Tail(p))
    ELSE IF p[Len(p)] = "/" THEN Strip(SubSeq(p, 1, Len(p) - 1))
    ELSE p

\* template.rsplit("/", 1)[0]: the text before the last "/", all of it when
\* there is none
rsplit_head(t) ==
    IF HasSlash(t)
    THEN LET last == CHOOSE i \in 1..Len(t) :
                        t[i] = "/" /\ \A j \in (i + 1)..Len(t) : t[j] # "/"
         IN  SubSeq(t, 1, last - 1)
    ELSE t

\* UPath(template).name
UPathName(t) ==
    LET parts == SplitFrom(AsPosix(t), 1, <<>>)
    IN  parts[Len(parts)]

FileEntry(name) == [name |-> name, type |-> "file"]
DirEntry(name)  == [name |-> name, type |-> "directory"]
ItemEntry(item) == [name |-> item, type |-> IF HasDot(item) THEN "file" ELSE "directory"]

Returned(out)  == [exc |-> "", out |-> out]
FileNotFound   == [exc |-> "FileNotFoundError", out |-> <<>>]

\* JinjaLoaderFileSystem._list_root
list_root(templates, detail, order) ==
    LET root_files == SelectSeq(templates, LAMBDA path : ~HasSlash(path))
        root_dirs  == {SplitFrom(templates[i], 1, <<>>)[1] : i \in
                          {j \in 1..Len(templates) :
                              /\ HasSlash(templates[j])
                              /\ \A k \in 1..Len(root_files) : root_files[k] # templates[j]}}
        dirs       == SetOrder(root_dirs, order)
    IN  IF detail
        THEN Returned([i \in 1..Len(dirs) |-> DirEntry(dirs[i])] \o [i \in 1..Len(root_files) |-> FileEntry(root_files[i])])
        ELSE Returned(dirs \o root_files)

\* JinjaLoaderFileSystem._list_subdirectory
list_subdirectory(templates, path, detail) ==
    LET inside == SelectSeq(templates, LAMBDA template : rsplit_head(template) = path)
        items  == [i \in 1..Len(inside) |-> UPathName(inside[i])]
    IN  IF items = <<>> THEN FileNotFound
        ELSE IF detail THEN Returned([i \in 1..Len(items) |-> ItemEntry(items[i])])
        ELSE Returned(items)

RootPaths == {<<>>, <<"/">>, <<".">>}

\* JinjaLoaderFileSystem.ls
ls(loader, B, path, detail, order) ==
    IF loader = None THEN FileNotFound
    ELSE LET templates  == sorted_templates(loader, B)
             clean_path == Strip(AsPosix(path))
         IN  IF clean_path \in RootPaths
             THEN list_root(templates, detail, order)
             ELSE list_subdirectory(templates, clean_path, detail)

\* str.encode(): the bytes of the text
Encode(text) == [bytes |-> text]

\* JinjaLoaderFileSystem._open
open(loader, B, cache, path) ==
    IF loader = None THEN [exc |-> "FileNotFoundError", out |-> <<>>, cache |-> cache]
    ELSE LET g == get_source(loader, B, cache, path)
         IN  IF g.res.status = "ok"
             THEN [exc |-> "", out |-> Encode(g.res.src), cache |-> g.cache]
             ELSE IF g.res = NotFound
             THEN [exc |-> "FileNotFoundError", out |-> <<>>, cache |-> g.cache]
             ELSE [exc |-> g.res.status, out |-> <<>>, cache |-> g.cache]

LsPaths   == {<<>>, <<"/">>, <<".">>, PlainS, <<"s", "/">>, <<"s", "/", "u">>, <<"r">>,
              HomeT, GoneT}
OpenPaths == {HomeT, SubT, PlainS, GoneT}

\* fs = JinjaLoaderFileSystem(env) for an environment with or without a
\* DictLoader, in a process with some string hashing
NewFileSystem ==
    \E loader \in {None} \cup {DictLoader(m, AllocId(nextId)) : m \in Mappings},
       order \in Orders :
        /\ env_loader' = loader
        /\ fs_out' = [NoOut EXCEPT !.op = "init", !.order = order]
        /\ UNCHANGED <<fs_loaders, fsspec_loaders, package_loaders, constructed, nextId,
                       earlier, lastCall, backend, fsspec_cache, resolved, callers,
                       extra_files, extra_paths, env_globals, with_ctx>>
        /\ UNCHANGED later

\* fs.ls(path, detail)
Ls ==
    \E path \in LsPaths, detail \in BOOLEAN :
        LET r == ls(env_loader, backend, path, detail, fs_out.order)
        IN  /\ fs_out.op # "none"
            /\ fs_out' = [op |-> "ls", path |-> path, detail |-> detail, exc |-> r.exc,
                          out |-> r.out, order |-> fs_out.order]
            /\ UNCHANGED <<fs_loaders, fsspec_loaders, package_loaders, constructed,
                           nextId, earlier, lastCall, backend, fsspec_cache, resolved,
                           env_loader, callers, extra_files, extra_paths, env_globals,
                           with_ctx>>
            /\ UNCHANGED later

\* fs.open(path)
FsOpen ==
    \E path \in OpenPaths :
        LET r == open(env_loader, backend, fsspec_cache, path)
        IN  /\ fs_out.op # "none"
            /\ fs_out' = [op |-> "open", path |-> path, detail |-> FALSE, exc |-> r.exc,
                          out |-> r.out, order |-> fs_out.order]
            /\ fsspec_cache' = r.cache
            /\ UNCHANGED <<fs_loaders, fsspec_loaders, package_loaders, constructed,
                           nextId, earlier, lastCall, backend, resolved, env_loader,
                           callers, extra_files, extra_paths, env_globals, with_ctx>>
            /\ UNCHANGED later

NextJinjaFs ==
    \/ NewFileSystem
    \/ Ls
    \/ FsOpen

SpecJinjaFs == Init /\ [][NextJinjaFs]_vars

\* what a claim about a listing speaks of
Segs(t)      == SplitFrom(t, 1, <<>>)
Listing      == sorted_templates(env_loader, backend)
CleanPath    == Strip(AsPosix(fs_out.path))
Below(t, p)  == Len(Segs(t)) > Len(Segs(p)) /\ SubSeq(Segs(t), 1, Len(Segs(p))) = Segs(p)
DirectlyInside(t, p) == Below(t, p) /\ Len(Segs(t)) = Len(Segs(p)) + 1
IsDirectory(p)       == \E i \in 1..Len(Listing) : Below(Listing[i], p)
BaseName(t)  == Segs(t)[Len(Segs(t))]
NamesOf(out, detail) == IF detail THEN [i \in 1..Len(out) |-> out[i].name] ELSE out
LsReturned   == fs_out.op = "ls" /\ fs_out.exc = ""

\* C19: ls of the root returns every first segment of the nested
\* templates once as a directory and then the templates without "/" as files
\* in listing order; ls of a subdirectory returns the base names of the
\* templates directly inside it; detail=False gives the names of detail=True
\* in the same order.
C19_Original ==
    /\ (LsReturned /\ CleanPath \in RootPaths) =>
          LET names  == NamesOf(fs_out.out, fs_out.detail)
              firsts == {Segs(Listing[i])[1] : i \in {j \in 1..Len(Listing) : HasSlash(Listing[j])}}
              files  == SelectSeq(Listing, LAMBDA t : ~HasSlash(t))
              k      == Cardinality(firsts)
          IN  /\ Len(names) = k + Len(files)
              /\ {names[i] : i \in 1..k} = firsts
              /\ SubSeq(names, k + 1, Len(names)) = files
              /\ fs_out.detail =>
                    \A i \in 1..Len(names) :
                        fs_out.out[i].type = IF i <= k THEN "directory" ELSE "file"
    /\ (LsReturned /\ CleanPath \notin RootPaths /\ IsDirectory(CleanPath)) =>
          LET inside == SelectSeq(Listing, LAMBDA t : DirectlyInside(t, CleanPath))
          IN  NamesOf(fs_out.out, fs_out.detail) = [i \in 1..Len(inside) |-> BaseName(inside[i])]
    /\ (LsReturned /\ ~fs_out.detail) =>
          fs_out.out = NamesOf(ls(env_loader, backend, fs_out.path, TRUE, fs_out.order).out, TRUE)

\* C20: ls and open raise FileNotFoundError without a loader, open raises
\* FileNotFoundError for a template the loader does not know, ls of a
\* subdirectory with no template directly inside it raises
\* FileNotFoundError, and a known template opens to its source as bytes.
C20_Original ==
    /\ (fs_out.op \in {"ls", "open"} /\ env_loader = None) =>
          fs_out.exc = "FileNotFoundError"
    /\ (fs_out.op = "open" /\ env_loader # None) =>
          IF \E e \in env_loader.mapping : e[1] = fs_out.path
          THEN /\ fs_out.exc = ""
               /\ \E e \in env_loader.mapping :
                     e[1] = fs_out.path /\ fs_out.out = Encode(e[2])
          ELSE fs_out.exc = "FileNotFoundError"
    /\ (/\ fs_out.op = "ls"
        /\ env_loader # None
        /\ CleanPath \notin RootPaths
        /\ IsDirectory(CleanPath)
        /\ ~\E i \in 1..Len(Listing) : DirectlyInside(Listing[i], CleanPath)) =>
          fs_out.exc = "FileNotFoundError"

----------------------------------------------------------------------------
\* APICallCollectionManager (specification SpecManager)

\* keys of a lookup: a UUID or a str
UUID(u)   == [type |-> "uuid", v |-> u]
StrKey(s) == [type |-> "str", v |-> s]

APICall(call_id, name) == [call_id |-> call_id, name |-> name]
APICallCollection(name, calls) == [name |-> name, calls |-> calls]

NoCollection == [name |-> "", calls |-> <<>>]

\* the files of the store: what a path is, and for a file its suffix, the
\* format of its text and the collection the text describes
Dir(entries)                  == [kind |-> "dir", entries |-> entries]
File(suffix, format, data)    == [kind |-> "file", suffix |-> suffix, format |-> format,
                                  data |-> data]

CollA  == APICallCollection("A", <<APICall("u1", "n1")>>)
CollB  == APICallCollection("B", <<APICall("u2", "n2"), APICall("u3", "u1")>>)
CollA2 == APICallCollection("A", <<APICall("u4", "n1")>>)
CollC  == APICallCollection("C", <<APICall("u5", "n5")>>)

ManagerFiles ==
    [p \in {"colls", "colls/a.yaml", "colls/b.json", "dup.json", "mixed", "mixed/c.yml",
            "mixed/notes.txt"} |->
        CASE p = "colls"           -> Dir({"colls/a.yaml", "colls/b.json"})
          [] p = "colls/a.yaml"    -> File(".yaml", "yaml", CollA)
          [] p = "colls/b.json"    -> File(".json", "json", CollB)
          [] p = "dup.json"        -> File(".json", "json", CollA2)
          [] p = "mixed"           -> Dir({"mixed/c.yml", "mixed/notes.txt"})
          [] p = "mixed/c.yml"     -> File(".yml", "json", CollC)
          [] p = "mixed/notes.txt" -> File(".txt", "text", NoCollection)]

ManagerPaths == {"colls", "dup.json", "mixed", "nonexistent"}

\* the orders in which path.iterdir() can yield the entries of a directory
RECURSIVE Perms(_)
Perms(S) ==
    IF S = {} THEN {<<>>}
    ELSE UNION {{<<x>> \o rest_ : rest_ \in Perms(S \ {x})} : x \in S}

IterDirs ==
    LET dirs == {p \in DOMAIN ManagerFiles : ManagerFiles[p].kind = "dir"}
    IN  {f \in [dirs -> UNION {Perms(ManagerFiles[p].entries) : p \in dirs}] :
            \A p \in dirs : f[p] \in Perms(ManagerFiles[p].entries)}

\* an assignment that moves a known key to the end
DictSet_reinsert(colls, collection) ==
    Append(SelectSeq(colls, LAMBDA c : c.name # collection.name), collection)

\* self.collections[name] = collection: a new key goes last, a known key
\* keeps its place
DictSet(colls, collection) ==
    IF \E i \in 1..Len(colls) : colls[i].name = collection.name
    THEN [i \in 1..Len(colls) |->
             IF colls[i].name = collection.name THEN collection ELSE colls[i]]
    ELSE Append(colls, collection)

\* a _load_collection_file that keeps the collection a name already has
load_collection_file_keep(colls, file_path) ==
    LET f      == ManagerFiles[file_path]
        parsed == IF f.suffix \in {".yaml", ".yml"}
                  THEN f.format \in {"yaml", "json"}
                  ELSE f.format = "json"
    IN  IF ~parsed
        THEN [colls |-> colls,
              exc |-> IF f.suffix \in {".yaml", ".yml"} THEN "YAMLError" ELSE "JSONDecodeError"]
        ELSE [colls |-> IF \E i \in 1..Len(colls) : colls[i].name = f.data.name
                        THEN colls ELSE Append(colls, f.data),
              exc |-> ""]

\* APICallCollectionManager._load_collection_file
load_collection_file(colls, file_path) ==
    LET f      == ManagerFiles[file_path]
        parsed == IF f.suffix \in {".yaml", ".yml"}
                  THEN f.format \in {"yaml", "json"}
                  ELSE f.format = "json"
    IN  IF ~parsed
        THEN [colls |-> colls,
              exc |-> IF f.suffix \in {".yaml", ".yml"} THEN "YAMLError" ELSE "JSONDecodeError"]
        ELSE [colls |-> DictSet(colls, f.data), exc |-> ""]

\* the loop over the files of one path
RECURSIVE load_files(_, _, _)
load_files(colls, files, done) ==
    IF files = <<>> THEN [colls |-> colls, exc |-> "", loaded |-> done]
    ELSE LET r == load_collection_file(colls, Head(files))
         IN  IF r.exc # "" THEN [colls |-> r.colls, exc |-> r.exc, loaded |-> done]
             ELSE load_files(r.colls, Tail(files), Append(done, Head(files)))

\* a load_collections that takes only the *.yaml, *.yml, *.toml and *.json
\* entries of a directory
RECURSIVE load_collections_glob(_, _, _, _)
load_collections_glob(colls, paths, iterdir, done) ==
    IF paths = <<>> THEN [colls |-> colls, exc |-> "", loaded |-> done]
    ELSE LET path == Head(paths)
         IN  IF path \notin DOMAIN ManagerFiles
             THEN [colls |-> colls, exc |-> "FileNotFoundError", loaded |-> done]
             ELSE LET files == IF ManagerFiles[path].kind = "dir"
                               THEN SelectSeq(iterdir[path],
                                              LAMBDA e : ManagerFiles[e].suffix \in
                                                  {".yaml", ".yml", ".toml", ".json"})
                               ELSE <<path>>
                      r     == load_files(colls, files, done)
                  IN  IF r.exc # "" THEN r
                      ELSE load_collections_glob(r.colls, Tail(paths), iterdir, r.loaded)

\* APICallCollectionManager.load_collections
RECURSIVE load_collections(_, _, _, _)
load_collections(colls, paths, iterdir, done) ==
    IF paths = <<>> THEN [colls |-> colls, exc |-> "", loaded |-> done]
    ELSE LET path == Head(paths)
         IN  IF path \notin DOMAIN ManagerFiles
             THEN [colls |-> colls, exc |-> "FileNotFoundError", loaded |-> done]
             ELSE LET files == IF ManagerFiles[path].kind = "dir"
                               THEN iterdir[path] ELSE <<path>>
                      r     == load_files(colls, files, done)
                  IN  IF r.exc # "" THEN r
                      ELSE load_collections(r.colls, Tail(paths), iterdir, r.loaded)

\* a get_call that compares the identifier with both fields of a call
get_call_anyfield(colls, identifier) ==
    LET all   == UNION {{<<i, j>> : j \in 1..Len(colls[i].calls)} : i \in 1..Len(colls)}
        calls == {c \in all :
                     \/ colls[c[1]].calls[c[2]].call_id = identifier.v
                     \/ colls[c[1]].calls[c[2]].name = identifier.v}
    IN  IF calls = {} THEN None
        ELSE LET first == CHOOSE c \in calls :
                              \A d \in calls : c[1] < d[1] \/ (c[1] = d[1] /\ c[2] <= d[2])
             IN  colls[first[1]].calls[first[2]]

\* APICallCollectionManager.get_call
get_call(colls, identifier) ==
    LET all   == UNION {{<<i, j>> : j \in 1..Len(colls[i].calls)} : i \in 1..Len(colls)}
        calls == {c \in all :
                     \/ identifier.type = "uuid" /\ colls[c[1]].calls[c[2]].call_id = identifier.v
                     \/ identifier.type = "str" /\ colls[c[1]].calls[c[2]].name = identifier.v}
    IN  IF calls = {} THEN None
        ELSE LET first == CHOOSE c \in calls :
                              \A d \in calls : c[1] < d[1] \/ (c[1] = d[1] /\ c[2] <= d[2])
             IN  colls[first[1]].calls[first[2]]

\* APICallCollectionManager.__getitem__
getitem(colls, key) ==
    LET call == get_call(colls, key)
    IN  IF call = None THEN [exc |-> "KeyError", ret |-> None] ELSE [exc |-> "", ret |-> call]

\* APICallCollectionManager.__contains__ for a UUID or str key, and for a call
contains(colls, item) == get_call(colls, item) # None
contains_call(colls, call) == get_call(colls, UUID(call.call_id)) # None

\* APICallCollectionManager.__iter__
RECURSIVE iter(_)
iter(colls) == IF colls = <<>> THEN <<>> ELSE Head(colls).calls \o iter(Tail(colls))

\* APICallCollectionManager.__len__
RECURSIVE len(_)
len(colls) == IF colls = <<>> THEN 0 ELSE Len(Head(colls).calls) + len(Tail(colls))

\* APICallCollectionManager.list_collections
list_collections(colls) == [i \in 1..Len(colls) |-> colls[i].name]

\* manager.load_collections(paths)
LoadCollections ==
    \E paths \in SeqsUpTo(ManagerPaths, MaxPaths) \ {<<>>}, iterdir \in IterDirs :
        LET r == load_collections(collections, paths, iterdir, <<>>)
        IN  /\ collections' = r.colls
            /\ mgr_out' = [op |-> "load_collections", paths |-> paths, exc |-> r.exc,
                           before |-> collections, loaded |-> r.loaded]
            /\ UNCHANGED <<fs_loaders, fsspec_loaders, package_loaders, constructed,
                           nextId, earlier, lastCall, backend, fsspec_cache, resolved,
                           env_loader, rest, tree_out, loaderregistry_registry>>

\* manager = APICallCollectionManager(collection_paths)
NewManager ==
    \E paths \in {<<>>, <<"colls">>, <<"nonexistent">>}, iterdir \in IterDirs :
        LET r == load_collections(<<>>, paths, iterdir, <<>>)
        IN  /\ collections' = r.colls
            /\ mgr_out' = [op |-> "init", paths |-> paths, exc |-> r.exc,
                           before |-> <<>>, loaded |-> r.loaded]
            /\ UNCHANGED <<fs_loaders, fsspec_loaders, package_loaders, constructed,
                           nextId, earlier, lastCall, backend, fsspec_cache, resolved,
                           env_loader, rest, tree_out, loaderregistry_registry>>

NextManager ==
    \/ NewManager
    \/ LoadCollections

SpecManager == Init /\ [][NextManager]_vars

\* the keys looked up, and the calls the manager holds
Keys  == {UUID(u) : u \in {"u1", "u3", "u4", "u9"}} \cup
         {StrKey(n) : n \in {"n1", "u1", "n2", "xyz"}}
Calls == {iter(collections)[i] : i \in 1..Len(iter(collections))}

\* C21: for a UUID or str key, membership, get_call and indexing agree;
\* a UUID key finds a call by call_id only and a str key by name only; every
\* call of the iteration is in the manager, as are its call_id and its name.
C21_LookupsAgree ==
    /\ \A k \in Keys :
          /\ contains(collections, k) <=> get_call(collections, k) # None
          /\ get_call(collections, k) # None <=> getitem(collections, k).exc = ""
          /\ getitem(collections, k).exc = "" =>
                getitem(collections, k).ret = get_call(collections, k)
          /\ getitem(collections, k).exc \in {"", "KeyError"}
          /\ get_call(collections, k) # None <=>
                \E c \in Calls : IF k.type = "uuid" THEN c.call_id = k.v ELSE c.name = k.v
          /\ get_call(collections, k) # None =>
                /\ get_call(collections, k) \in Calls
                /\ IF k.type = "uuid" THEN get_call(collections, k).call_id = k.v
                   ELSE get_call(collections, k).name = k.v
    /\ \A c \in Calls :
          /\ contains_call(collections, c)
          /\ contains(collections, UUID(c.call_id))
          /\ contains(collections, StrKey(c.name))

\* a call named like another call's id is loaded, the call with that id
\* is not, and some key is unknown
C21_Witness ==
    /\ mgr_out.op = "load_collections"
    /\ get_call(collections, StrKey("u1")) = APICall("u3", "u1")
    /\ get_call(collections, UUID("u1")) = None
    /\ get_call(collections, UUID("u4")) = APICall("u4", "n1")
    /\ ~contains(collections, StrKey("xyz"))

\* the collections the last call loaded, in the order it loaded them
LoadedData == [i \in 1..Len(mgr_out.loaded) |-> ManagerFiles[mgr_out.loaded[i]].data]

\* the names in the order of their first registration
FirstRegistered ==
    reduce_list(list_collections(mgr_out.before) \o list_collections(LoadedData))

\* the collection now registered under a name: the last one loaded with it
RegisteredAs(name) ==
    LET all == mgr_out.before \o LoadedData
        last == CHOOSE i \in 1..Len(all) :
                    all[i].name = name /\ \A j \in (i + 1)..Len(all) : all[j].name # name
    IN  all[last]

RECURSIVE CallsInOrder(_)
CallsInOrder(names) ==
    IF names = <<>> THEN <<>>
    ELSE RegisteredAs(Head(names)).calls \o CallsInOrder(Tail(names))

RECURSIVE SumCalls(_)
SumCalls(S) ==
    IF S = {} THEN 0
    ELSE LET n == CHOOSE x \in S : TRUE IN Len(RegisteredAs(n).calls) + SumCalls(S \ {n})

\* C22: len(manager) is the number of calls the iteration yields and the
\* sum of the collections' numbers of calls; the iteration goes collection
\* by collection in the order of first registration, and list_collections
\* returns the registered names in that order.
C22_CountsAndOrder ==
    /\ len(collections) = Len(iter(collections))
    /\ len(collections) = SumCalls({collections[i].name : i \in 1..Len(collections)})
    /\ list_collections(collections) = FirstRegistered
    /\ iter(collections) = CallsInOrder(FirstRegistered)

\* a load replaced the collection registered first, and another one follows it
C22_Witness ==
    /\ mgr_out.op = "load_collections"
    /\ mgr_out.exc = ""
    /\ mgr_out.before = <<CollA, CollB>>
    /\ collections = <<CollA2, CollB>>
    /\ len(collections) = Len(CollA2.calls) + Len(CollB.calls)

\* the files a path stands for
FilesOf(path) ==
    IF ManagerFiles[path].kind = "dir" THEN ManagerFiles[path].entries ELSE {path}

RECURSIVE CountFiles(_)
CountFiles(paths) ==
    IF paths = <<>> THEN 0 ELSE Cardinality(FilesOf(Head(paths))) + CountFiles(Tail(paths))

Loaded == {mgr_out.loaded[i] : i \in 1..Len(mgr_out.loaded)}

\* the paths of the call before the first one that does not exist
RECURSIVE Existing(_)
Existing(paths) ==
    IF paths = <<>> \/ Head(paths) \notin DOMAIN ManagerFiles THEN <<>>
    ELSE <<Head(paths)>> \o Existing(Tail(paths))

\* C23: a call (from the constructor too) that comes to a path which does
\* not exist raises FileNotFoundError; a call that returns has loaded every
\* entry of each directory and each file given, and each loaded collection is
\* registered under its name.
C23_LoadOutcome ==
    mgr_out.op \in {"init", "load_collections"} =>
        LET before == Existing(mgr_out.paths)
        IN  /\ (/\ Len(before) < Len(mgr_out.paths)
                /\ \A i \in 1..Len(before) : \A f \in FilesOf(before[i]) :
                      load_collection_file(<<>>, f).exc = "")
               => mgr_out.exc = "FileNotFoundError"
            /\ mgr_out.exc = "FileNotFoundError" => Len(before) < Len(mgr_out.paths)
            /\ mgr_out.exc = "" =>
                  /\ Len(before) = Len(mgr_out.paths)
                  /\ Loaded = UNION {FilesOf(before[i]) : i \in 1..Len(before)}
                  /\ Len(mgr_out.loaded) = CountFiles(before)
            /\ \A f \in Loaded :
                  \E i \in 1..Len(collections) :
                      /\ collections[i].name = ManagerFiles[f].data.name
                      /\ collections[i] = RegisteredAs(ManagerFiles[f].data.name)

\* a call with a file and a directory returned
C23_Witness ==
    /\ mgr_out.op = "load_collections"
    /\ mgr_out.paths = <<"dup.json", "colls">>
    /\ mgr_out.exc = ""
    /\ Loaded = {"dup.json", "colls/a.yaml", "colls/b.json"}
    /\ list_collections(collections) = <<"A", "B">>

\* the collections that were registered or loaded and are registered no more
Replaced ==
    {c \in {(mgr_out.before \o LoadedData)[i] : i \in 1..Len(mgr_out.before \o LoadedData)} :
        c # RegisteredAs(c.name)}

\* C29: one collection per name, the last one loaded with that name; the
\* calls of a replaced collection are not reachable; the number of
\* collections is the number of distinct names loaded; a failing call keeps
\* what it loaded before the failure and loads nothing after it.
C29_ReplaceAndPartial ==
    mgr_out.op \in {"init", "load_collections"} =>
        /\ \A i, j \in 1..Len(collections) :
              collections[i].name = collections[j].name => i = j
        /\ \A i \in 1..Len(collections) :
              collections[i] = RegisteredAs(collections[i].name)
        /\ Len(collections)
              = Cardinality({(mgr_out.before \o LoadedData)[i].name :
                                i \in 1..Len(mgr_out.before \o LoadedData)})
        /\ \A old \in Replaced : \A i \in 1..Len(old.calls) :
              old.calls[i] \notin {RegisteredAs(old.name).calls[j] :
                                      j \in 1..Len(RegisteredAs(old.name).calls)}
                 => /\ old.calls[i] \notin Calls
                    /\ get_call(collections, UUID(old.calls[i].call_id)) # old.calls[i]
                    /\ get_call(collections, StrKey(old.calls[i].name)) # old.calls[i]
        /\ len(collections) = SumCalls({collections[i].name : i \in 1..Len(collections)})
        /\ mgr_out.exc # "" =>
              /\ \A f \in Loaded :
                    \E i \in 1..Len(collections) :
                        collections[i].name = ManagerFiles[f].data.name
              /\ {collections[i] : i \in 1..Len(collections)} \subseteq
                    {(mgr_out.before \o LoadedData)[i] :
                        i \in 1..Len(mgr_out.before \o LoadedData)}

\* a call replaced collection A, loaded C and then failed on a file
C29_Witness ==
    /\ mgr_out.op = "load_collections"
    /\ mgr_out.exc = "JSONDecodeError"
    /\ mgr_out.before = <<CollA, CollB>>
    /\ collections = <<CollA2, CollB, CollC>>
    /\ get_call(collections, UUID("u1")) = None

----------------------------------------------------------------------------
\* DirectoryTree (specification SpecTree)

\* the directory printed: for every path its stat and, for a directory, the
\* names directory.iterdir() yields.  A path is the sequence of names below
\* the root; a name is a sequence of characters.
NameB   == <<"b">>
NameE   == <<"e">>
NameA   == <<"a", ".", "t">>
NameC   == <<"c", ".", "d">>
NameX   == <<"x", ".", "d">>
NameHid == <<".", "h">>

DirNode(size, mtime, children) ==
    [is_dir |-> TRUE, size |-> size, mtime |-> mtime, children |-> children]
FileNode(size, mtime) ==
    [is_dir |-> FALSE, size |-> size, mtime |-> mtime, children |-> <<>>]

TreeFiles ==
    [p \in {<<>>, <<NameB>>, <<NameE>>, <<NameA>>, <<NameC>>, <<NameB, NameX>>,
            <<NameB, NameHid>>} |->
        CASE p = <<>>               -> DirNode(4, 9, <<NameB, NameE, NameA, NameC>>)
          [] p = <<NameB>>          -> DirNode(4, 3, <<NameHid, NameX>>)
          [] p = <<NameE>>          -> DirNode(4, 1, <<>>)
          [] p = <<NameA>>          -> FileNode(2, 2)
          [] p = <<NameC>>          -> FileNode(2, 4)
          [] p = <<NameB, NameX>>   -> FileNode(1, 5)
          [] p = <<NameB, NameHid>> -> FileNode(1, 6)]

SortCriteria == {"NAME", "SIZE", "DATE", "EXTENSION"}

PathName(path) == path[Len(path)]

\* path.suffix.lower(): the text from the last "." of the name, none for a
\* name that starts with its only "."
Suffix(name) ==
    LET dots == {i \in 2..Len(name) : name[i] = "."}
    IN  IF dots = {} \/ name[Len(name)] = "." THEN <<>>
        ELSE SubSeq(name, CHOOSE i \in dots : \A j \in dots : j <= i, Len(name))

\* _get_path_info
get_path_info(path) ==
    [size |-> TreeFiles[path].size, mtime |-> TreeFiles[path].mtime,
     is_dir |-> TreeFiles[path].is_dir, name |-> PathName(path),
     extension |-> Suffix(PathName(path))]

\* DirectoryTree._get_sort_key: (not is_dir, key of the criterion)
get_sort_key(path, sort_criteria) ==
    LET info == get_path_info(path)
    IN  [file |-> ~TreeFiles[path].is_dir,
         key  |-> CASE sort_criteria = "NAME"      -> <<info.name>>
                    [] sort_criteria = "SIZE"      -> <<info.size>>
                    [] sort_criteria = "DATE"      -> <<info.mtime>>
                    [] sort_criteria = "EXTENSION" -> <<info.extension, info.name>>]

\* comparison of the key tuples of one criterion
ItemLess(a, b, sort_criteria) ==
    IF sort_criteria \in {"SIZE", "DATE"} THEN a < b ELSE StrLess(a, b)

RECURSIVE TupleLess(_, _, _)
TupleLess(a, b, sort_criteria) ==
    IF a = <<>> \/ b = <<>> THEN FALSE
    ELSE IF Head(a) = Head(b) THEN TupleLess(Tail(a), Tail(b), sort_criteria)
    ELSE ItemLess(Head(a), Head(b), sort_criteria)

KeyLess(k, l, sort_criteria) ==
    IF k.file # l.file THEN l.file
    ELSE TupleLess(k.key, l.key, sort_criteria)

\* sorted(paths, key=..., reverse=...): stable in both directions
RECURSIVE sorted_by(_, _, _)
sorted_by(paths, sort_criteria, reverse) ==
    IF paths = <<>> THEN <<>>
    ELSE LET init == sorted_by(SubSeq(paths, 1, Len(paths) - 1), sort_criteria, reverse)
             x    == paths[Len(paths)]
             kx   == get_sort_key(x, sort_criteria)
             \* x goes behind every element that does not come after it
             after(y) == IF reverse
                         THEN KeyLess(get_sort_key(y, sort_criteria), kx, sort_criteria)
                         ELSE KeyLess(kx, get_sort_key(y, sort_criteria), sort_criteria)
             n    == Cardinality({i \in 1..Len(init) : ~after(init[i])})
         IN  SubSeq(init, 1, n) \o <<x>> \o SubSeq(init, n + 1, Len(init))

\* DirectoryTree._should_include with show_hidden=False and no pattern
should_include(path) == PathName(path)[1] # "."

IterDir(directory, iterdir) ==
    LET names == IF directory = <<>> THEN iterdir ELSE TreeFiles[directory].children
    IN  [i \in 1..Len(names) |-> Append(directory, names[i])]

\* DirectoryTree._is_directory_empty_after_filters
RECURSIVE is_directory_empty_after_filters(_, _)
is_directory_empty_after_filters(directory, iterdir) ==
    LET paths == SelectSeq(IterDir(directory, iterdir), should_include)
    IN  \A i \in 1..Len(paths) :
            /\ TreeFiles[paths[i]].is_dir
            /\ is_directory_empty_after_filters(paths[i], iterdir)

\* DirectoryTree._get_tree_entries
RECURSIVE get_tree_entries(_, _, _, _)
RECURSIVE process_visible(_, _, _, _, _)
process_visible(visible_paths, i, prefix, options, iterdir) ==
    IF i > Len(visible_paths) THEN <<>>
    ELSE LET path    == visible_paths[i]
             is_last == i = Len(visible_paths)
             entry   == [prefix |-> prefix, connector |-> IF is_last THEN "ELBOW" ELSE "TEE",
                         path |-> path, is_last |-> is_last]
             below   == IF TreeFiles[path].is_dir
                        THEN get_tree_entries(path,
                                 Append(prefix, IF is_last THEN "BLANK" ELSE "PIPE"),
                                 options, iterdir)
                        ELSE <<>>
         IN  <<entry>> \o below \o process_visible(visible_paths, i + 1, prefix, options, iterdir)

get_tree_entries(directory, prefix, options, iterdir) ==
    LET paths   == sorted_by(IterDir(directory, iterdir), options.sort_criteria,
                             options.reverse_sort)
        visible(path) ==
            /\ should_include(path)
            /\ ~(/\ TreeFiles[path].is_dir
                 /\ options.hide_empty
                 /\ is_directory_empty_after_filters(path, iterdir))
    IN  process_visible(SelectSeq(paths, visible), 1, prefix, options, iterdir)

\* DirectoryTree(root, options).print_tree(): the entries it prints
PrintTree ==
    \E sort_criteria \in SortCriteria, reverse_sort \in BOOLEAN, hide_empty \in BOOLEAN,
       iterdir \in Perms({NameB, NameE, NameA, NameC}) :
        LET options == [sort_criteria |-> sort_criteria, reverse_sort |-> reverse_sort,
                        hide_empty |-> hide_empty]
        IN  /\ tree_out' = [op |-> "print_tree", sort_criteria |-> sort_criteria,
                            reverse_sort |-> reverse_sort, hide_empty |-> hide_empty,
                            iterdir |-> iterdir,
                            entries |-> get_tree_entries(<<>>, <<>>, options, iterdir)]
            /\ UNCHANGED <<fs_loaders, fsspec_loaders, package_loaders, constructed,
                           nextId, earlier, lastCall, backend, fsspec_cache, resolved,
                           env_loader, rest, collections, mgr_out,
                           loaderregistry_registry>>

NextTree == PrintTree

SpecTree == Init /\ [][NextTree]_vars

\* entries of one directory
Siblings(i, j) ==
    SubSeq(tree_out.entries[i].path, 1, Len(tree_out.entries[i].path) - 1)
        = SubSeq(tree_out.entries[j].path, 1, Len(tree_out.entries[j].path) - 1)

\* C24: among the entries of every directory the directories come before
\* the files, for every criterion and direction; the last entry of a
\* directory, and only it, has the ELBOW connector, the others TEE.
C24_Original ==
    LET es == tree_out.entries
    IN  /\ \A i, j \in 1..Len(es) :
              (i < j /\ Siblings(i, j)) =>
                  ~(~TreeFiles[es[i].path].is_dir /\ TreeFiles[es[j].path].is_dir)
        /\ \A i \in 1..Len(es) :
              /\ es[i].connector \in {"ELBOW", "TEE"}
              /\ es[i].connector = "ELBOW" <=>
                    ~\E j \in (i + 1)..Len(es) : Siblings(i, j)

----------------------------------------------------------------------------
\* Cache keys of the registry for str and PathLike arguments (specification
\* SpecKeys)

UrlDSlash == <<"s", ":", "/", "/", "d", "/">>

KeyArgs == {Str(PathD), Str(PathDSlash), Str(<<".", "/", "d">>), PathLike(PathD),
            PathLike(PathDSlash), Str(PathT), PathLike(PathT)}
UrlArgs == {UrlD, UrlDSlash, UrlT}

\* registry.get_filesystem_loader(arg): pathlib.Path(arg) reads os.fspath(arg)
FsLoaderArg ==
    \E arg \in KeyArgs :
        /\ Commit(get_filesystem_loader(Registry, StrOf(arg)),
                  [NoCall EXCEPT !.op = "get_filesystem_loader", !.path = StrOf(arg),
                                 !.args = <<arg>>])
        /\ Remember
        /\ UNCHANGED env_loader

\* registry.by_path(arg): the test reads str(arg)
ByPathArg ==
    \E arg \in KeyArgs \cup {Str(UrlD)} :
        /\ Commit(by_path(Registry, StrOf(arg)),
                  [NoCall EXCEPT !.op = "by_path", !.path = StrOf(arg), !.args = <<arg>>])
        /\ Remember
        /\ UNCHANGED env_loader

\* registry.get_fsspec_loader(url)
FsspecLoaderArg ==
    \E url \in UrlArgs :
        /\ Commit(get_fsspec_loader(Registry, url),
                  [NoCall EXCEPT !.op = "get_fsspec_loader", !.path = url,
                                 !.args = <<Str(url)>>])
        /\ Remember
        /\ UNCHANGED env_loader

NextKeys ==
    \/ FsLoaderArg
    \/ ByPathArg
    \/ FsspecLoaderArg
    \/ GetPackageLoader

SpecKeys == Init /\ [][NextKeys]_vars

\* a call the filesystem cache serves
FsServed(call) ==
    \/ call.op = "get_filesystem_loader"
    \/ call.op = "by_path" /\ ~HasProtocolSep(call.path)

\* C25: two requests served by the filesystem cache whose paths, str or
\* PathLike, normalise to the same POSIX string return the identical
\* instance, and the cache holds one entry for them, under that string;
\* fsspec and package requests are told apart by the strings as given.
C25_PosixKey ==
    /\ (FsServed(earlier) /\ FsServed(lastCall)) =>
          /\ AsPosix(earlier.path) = AsPosix(lastCall.path) => earlier.ret = lastCall.ret
          /\ AsPosix(lastCall.path) \in DOMAIN fs_loaders
          /\ fs_loaders[AsPosix(lastCall.path)] = lastCall.ret
          /\ Made(constructed.fs, AsPosix(lastCall.path)) = 1
    /\ \A k \in DOMAIN fs_loaders : AsPosix(k) = k
    /\ \A k \in DOMAIN fs_loaders, l \in DOMAIN fs_loaders :
          fs_loaders[k] = fs_loaders[l] => k = l
    /\ (earlier.op = "get_fsspec_loader" /\ lastCall.op = "get_fsspec_loader") =>
          /\ earlier.path = lastCall.path <=> earlier.ret = lastCall.ret
          /\ lastCall.path \in DOMAIN fsspec_loaders
    /\ (earlier.op = "get_package_loader" /\ lastCall.op = "get_package_loader") =>
          /\ earlier.package = lastCall.package <=> earlier.ret = lastCall.ret
          /\ lastCall.package \in DOMAIN package_loaders

\* a str with a trailing slash and a PathLike of one directory got the same
\* loader, while two URLs that differ in a trailing slash are both cached
C25_Witness ==
    /\ earlier.op = "get_filesystem_loader" /\ earlier.args = <<Str(PathDSlash)>>
    /\ lastCall.op = "by_path" /\ lastCall.args = <<PathLike(PathD)>>
    /\ earlier.ret = lastCall.ret
    /\ DOMAIN fs_loaders = {PathD}
    /\ {UrlD, UrlDSlash} \subseteq DOMAIN fsspec_loaders
    /\ fsspec_loaders[UrlD] # fsspec_loaders[UrlDSlash]

----------------------------------------------------------------------------
\* get_loader with positional arguments (specification SpecPositional)

Module(mod) == [type |-> "module", text |-> mod]

\* a get_loader that takes the loader of a module from the package cache
get_loader_args_cached(R, args, dir_paths, module_paths, static, fsspec_paths) ==
    IF Len(args) = 1 /\ args[1].type = "str" THEN by_path(R, args[1].text)
    ELSE IF Len(args) = 1 /\ args[1].type = "module"
    THEN get_package_loader(R, args[1].text)
    ELSE get_loader(R, dir_paths, module_paths, static, fsspec_paths)

\* LoaderRegistry.get_loader(*args, **kwargs): the match on args, then the
\* chain built from the keyword arguments
get_loader_args(R, args, dir_paths, module_paths, static, fsspec_paths) ==
    IF Len(args) = 1 /\ args[1].type = "str" THEN by_path(R, args[1].text)
    ELSE IF Len(args) = 1 /\ args[1].type = "module"
    THEN [reg |-> [R EXCEPT !.next = @ + 1],
          ret |-> PackageLoader(args[1].text, AllocId(R.next))]
    ELSE get_loader(R, dir_paths, module_paths, static, fsspec_paths)

PositionalArgs == {<<>>, <<Str(PathDSlash)>>, <<Str(UrlD)>>, <<Module("mypkg")>>,
                   <<Str(PathD), Str(PathT)>>}

\* the keyword arguments of a call: none, or all four
KeywordArgs ==
    {[dir_paths |-> <<>>, module_paths |-> <<>>, static |-> {}, fsspec_paths |-> TRUE],
     [dir_paths |-> <<PathT>>, module_paths |-> <<"mypkg">>,
      static |-> {<<"x.txt", "hello">>}, fsspec_paths |-> TRUE],
     [dir_paths |-> <<UrlT>>, module_paths |-> <<"other">>, static |-> {},
      fsspec_paths |-> FALSE]}

\* registry.get_loader(*args, **kw)
GetLoaderArgs ==
    \E args \in PositionalArgs, kw \in KeywordArgs :
        /\ Commit(get_loader_args(Registry, args, kw.dir_paths, kw.module_paths,
                                  kw.static, kw.fsspec_paths),
                  [NoCall EXCEPT !.op = "get_loader_args", !.args = args,
                                 !.dir_paths = kw.dir_paths,
                                 !.module_paths = kw.module_paths, !.static = kw.static,
                                 !.fsspec_paths = kw.fsspec_paths])
        /\ UNCHANGED <<earlier, env_loader>>

NextPositional == GetLoaderArgs

SpecPositional == Init /\ [][NextPositional]_vars

OneStr(call) ==
    call.op = "get_loader_args" /\ Len(call.args) = 1 /\ call.args[1].type = "str"
OneModule(call) ==
    call.op = "get_loader_args" /\ Len(call.args) = 1 /\ call.args[1].type = "module"

\* C26: a call with one positional string returns the loader the cache of
\* by_path holds for it, no chain, and enters nothing from the keyword
\* arguments in a cache; a call with one positional module returns a new
\* PackageLoader that no cache holds and no earlier call returned, and
\* leaves the caches as they are.
C26_Step ==
    /\ OneStr(lastCall') =>
          LET p == lastCall'.args[1].text
          IN  /\ lastCall'.ret.kind # "choice"
              /\ IF HasProtocolSep(p)
                 THEN /\ lastCall'.ret = fsspec_loaders'[p]
                      /\ Added(fsspec_loaders, fsspec_loaders') \subseteq {p}
                      /\ fs_loaders' = fs_loaders
                 ELSE /\ lastCall'.ret = fs_loaders'[AsPosix(p)]
                      /\ Added(fs_loaders, fs_loaders') \subseteq {AsPosix(p)}
                      /\ fsspec_loaders' = fsspec_loaders
              /\ package_loaders' = package_loaders
              /\ nextId' = nextId
    /\ OneModule(lastCall') =>
          /\ lastCall'.ret.kind = "package"
          /\ lastCall'.ret.package = lastCall'.args[1].text
          /\ \A k \in DOMAIN package_loaders' : package_loaders'[k] # lastCall'.ret
          /\ lastCall'.ret # lastCall.ret
          /\ <<fs_loaders', fsspec_loaders', package_loaders', constructed'>>
                = <<fs_loaders, fsspec_loaders, package_loaders, constructed>>

C26_PositionalOnly == [][C26_Step]_vars

\* a module call with keyword arguments, made when the package cache holds
\* the module and the path of the keyword arguments is not cached
C26_Witness ==
    /\ OneModule(lastCall)
    /\ lastCall.dir_paths = <<UrlT>>
    /\ "mypkg" \in DOMAIN package_loaders
    /\ UrlT \notin DOMAIN fsspec_loaders
    /\ "other" \notin DOMAIN package_loaders
    /\ PathD \in DOMAIN fs_loaders

----------------------------------------------------------------------------
\* The module-level registries (specification SpecRegistries)

\* a package whose registry is the one imported from jinjarope.loaderregistry
module_registry_imported(module) == "jinjarope.loaderregistry.registry"

\* the object the name `registry` of a module is bound to: each module
\* calls LoaderRegistry() for itself
module_registry(module) ==
    IF module = "jinjarope" THEN "jinjarope.registry"
    ELSE "jinjarope.loaderregistry.registry"

RegistryModules == {"jinjarope", "jinjarope.loaderregistry"}

\* the registry object of that name
RegistryObject(obj) ==
    IF obj = "jinjarope.registry" THEN Registry ELSE loaderregistry_registry

\* the identity of a loader the second registry constructed: the counters of
\* a registry number its own objects only
ConstructedBy(obj, loader) ==
    IF obj = "jinjarope.registry" \/ loader = None THEN loader
    ELSE [loader EXCEPT !.id = <<obj, @[2]>>]

ConstructedIn(obj, cache) == [k \in DOMAIN cache |-> ConstructedBy(obj, cache[k])]

\* <module>.registry.get_loader(path); jinjarope.get_loader is the bound
\* method of jinjarope.registry
ModuleGetLoader ==
    \E module \in RegistryModules, path \in {PathD, PathT, UrlD} :
        LET obj == module_registry(module)
            r   == get_loader_args(RegistryObject(obj), <<Str(path)>>, <<>>, <<>>, {}, TRUE)
            reg == [r.reg EXCEPT !.fs = ConstructedIn(obj, @),
                                 !.fsspec = ConstructedIn(obj, @),
                                 !.pkg = ConstructedIn(obj, @)]
        IN  /\ IF obj = "jinjarope.registry"
               THEN /\ fs_loaders' = reg.fs
                    /\ fsspec_loaders' = reg.fsspec
                    /\ package_loaders' = reg.pkg
                    /\ constructed' = reg.made
                    /\ nextId' = reg.next
                    /\ UNCHANGED loaderregistry_registry
               ELSE /\ loaderregistry_registry' = reg
                    /\ UNCHANGED <<fs_loaders, fsspec_loaders, package_loaders,
                                   constructed, nextId>>
            /\ lastCall' = [NoCall EXCEPT !.op = "module_get_loader",
                                          !.package = module, !.path = path,
                                          !.args = <<Str(path)>>,
                                          !.ret = ConstructedBy(obj, r.ret)]
            /\ UNCHANGED <<earlier, backend, fsspec_cache, resolved, env_loader, rest,
                           collections, mgr_out, tree_out>>

NextRegistries == ModuleGetLoader \/ SetupLoader

SpecRegistries == Init /\ [][NextRegistries]_vars

\* the keys both caches hold
InBoth(cache, other) == (DOMAIN cache) \cap (DOMAIN other)

\* C27: the registry of jinjarope (behind jinjarope.get_loader and
\* Environment.setup_loader) and the registry of jinjarope.loaderregistry are
\* two objects: a call through one leaves the caches of the other as they
\* are, and a key both hold has a loader object of its own in each.
C27_Step ==
    /\ (lastCall'.op = "setup_loader"
        \/ (lastCall'.op = "module_get_loader" /\ lastCall'.package = "jinjarope"))
          => loaderregistry_registry' = loaderregistry_registry
    /\ (lastCall'.op = "module_get_loader"
        /\ lastCall'.package = "jinjarope.loaderregistry")
          => /\ <<fs_loaders', fsspec_loaders', package_loaders'>>
                   = <<fs_loaders, fsspec_loaders, package_loaders>>
             /\ lastCall'.ret \in
                   {loaderregistry_registry'.fs[k] : k \in DOMAIN loaderregistry_registry'.fs}
                   \cup {loaderregistry_registry'.fsspec[k] :
                            k \in DOMAIN loaderregistry_registry'.fsspec}
    /\ \A k \in InBoth(fs_loaders', loaderregistry_registry'.fs) :
          fs_loaders'[k] # loaderregistry_registry'.fs[k]
    /\ \A k \in InBoth(fsspec_loaders', loaderregistry_registry'.fsspec) :
          fsspec_loaders'[k] # loaderregistry_registry'.fsspec[k]

C27_TwoRegistries == [][C27_Step]_vars

\* one path cached by both registries, each with its own loader, one by
\* setup_loader; another path cached by one registry only
C27_Witness ==
    /\ PathD \in InBoth(fs_loaders, loaderregistry_registry.fs)
    /\ fs_loaders[PathD] # loaderregistry_registry.fs[PathD]
    /\ fs_loaders[PathD].searchpath = loaderregistry_registry.fs[PathD].searchpath
    /\ env_loader # None
    /\ UrlD \in DOMAIN loaderregistry_registry.fsspec
    /\ UrlD \notin DOMAIN fsspec_loaders
    /\ PathT \in DOMAIN fs_loaders
    /\ PathT \notin DOMAIN loaderregistry_registry.fs

----------------------------------------------------------------------------
\* Listings of JinjaLoaderFileSystem against one another (SpecJinjaFs)

\* the path of a name a listing of the current directory reports
ChildPath(name) ==
    IF CleanPath \in RootPaths THEN name ELSE CleanPath \o <<"/">> \o name

\* C28: every name a listing reports as a directory can be listed without
\* FileNotFoundError, a directory holding only subdirectories included, and
\* every name a listing of directory d reports as a file opens under d/name.
\* A listing of directory d is a listing of the root or of a path some
\* template lies below.
C28_Original ==
    (LsReturned /\ fs_out.detail /\ (CleanPath \in RootPaths \/ IsDirectory(CleanPath))) =>
        \A i \in 1..Len(fs_out.out) :
            LET entry == fs_out.out[i]
                child == ChildPath(entry.name)
            IN  /\ entry.type = "directory" =>
                      ls(env_loader, backend, child, TRUE, fs_out.order).exc
                         # "FileNotFoundError"
                /\ entry.type = "file" =>
                      open(env_loader, backend, fsspec_cache, child).exc = ""

====
